---- MODULE Spec2Model ----
(***************************************************************************)
(* Retail sales ETL (src/etl_pipeline.py): the batch transformation and    *)
(* data-quality engine (transform_data, DataQualityTracker) and the batch  *)
(* orchestrator (run_etl_pipeline) with the warehouse tables it writes     *)
(* through handlers/db_manager.run_sql_query.                              *)
(*                                                                         *)
(* Representation of pandas values:                                        *)
(*   - a text cell is a sequence of characters; the empty sequence is the  *)
(*     empty CSV field, which read_csv yields as NaN;                      *)
(*   - a numeric or date cell is a record [t, n]: t = "num" a number n,    *)
(*     "nan" NaN/NA/NaT, "junk" text that does not parse, "us"/"iso" a     *)
(*     date string (in the source's format / in ISO format) of instant n,  *)
(*     "ts" a pandas Timestamp of instant n;                               *)
(*   - a DataFrame is [none, cols, rows]: none = the Python value None,    *)
(*     cols = the expected columns are present, rows = the sequence of     *)
(*     rows, each carrying its index label idx.                            *)
(***************************************************************************)
EXTENDS Integers, Sequences, FiniteSets, TLC

VARIABLES
    clock,      \* the wall clock, in whole seconds
    stg,        \* table stg_retail_sales: its rows
    quar,       \* table dq_quarantine_sales
    met,        \* table dq_metrics
    batchlog,   \* table meta_etl_batch_log
    faults,     \* statements the database has refused so far for external reasons
    pc,         \* pc[p]: where process p stands in etl_pipeline.py
    run,        \* run[p]: the locals of p's call of run_etl_pipeline
    ids,        \* history: the batch_ids handed out so far
    succ_max,   \* history: the greatest invoice_date staged by a run that logged SUCCESS
    tsrc,       \* transform_data alone: the source read and the cursor, [csv, last]
    tst,        \* transform_data alone: the extracted frame and the working state
    tk,         \* transform_data alone: the next block to run (0: nothing extracted yet)
    cm,         \* the CacheManager object, the Redis keys it reaches, and what was
                \* last asked of it
    taken       \* history: taken[p], the status of the batch-log record that carried
                \* p's batch_id when p's run recreated the tables ("none" without one)

vars == <<clock, stg, quar, met, batchlog, faults, pc, run, ids, succ_max,
          tsrc, tst, tk, cm, taken>>
\* what transform_data on its own leaves alone, and what the orchestrator leaves
\* alone; neither touches the cache
pipeVars == <<clock, stg, quar, met, batchlog, faults, pc, run, ids, succ_max, cm, taken>>
tVars == <<tsrc, tst, tk, cm, taken>>

\* ------------------------------------------------------------------ bounds
MaxRows == 2        \* rows of a source file
MaxClock == 1       \* seconds the wall clock can advance
MaxFaults == 2      \* statements the database may refuse for external reasons

\* ------------------------------------------------------- program constants
chunk_size == 1     \* 5000 in the source, scaled so that MaxRows rows span several chunks
default_ttl == 2    \* 3600 seconds in the source, scaled to the clock's range
SuspiciousPrice == 10000
LowQuantity == 100

\* ------------------------------------------------------------------ cells
NaN == [t |-> "nan", n |-> 0]
Junk == [t |-> "junk", n |-> 0]
Num(k) == [t |-> "num", n |-> k]
DateUS(k) == [t |-> "us", n |-> k]
DateISO(k) == [t |-> "iso", n |-> k]
Timestamp(k) == [t |-> "ts", n |-> k]

\* pd.isna / notna on a numeric or date cell, and on a text cell
IsNaCell(c) == c.t = "nan"
IsNaText(s) == s = <<>>

\* pd.to_datetime(col, errors='coerce'): a date string or a Timestamp becomes a
\* Timestamp, anything else NaT
to_datetime(c) == IF c.t \in {"us", "iso", "ts"} THEN Timestamp(c.n) ELSE NaN

\* pd.to_numeric(col, errors='coerce'): a number stays, anything else is NaN
to_numeric(c) == IF c.t = "num" THEN c ELSE NaN

\* .fillna(0)
fillna0(c) == IF IsNaCell(c) THEN 0 ELSE c.n

\* str(value) of a date cell as quarantine_rows stores it: a string keeps its
\* text, a Timestamp prints in ISO format, NaN prints as 'nan'
StrDate(c) == IF c.t = "ts" THEN DateISO(c.n) ELSE c

Abs(x) == IF x < 0 THEN -x ELSE x

\* ------------------------------------------------------------------- text
IsSpace(ch) == ch = " "

Upper(ch) ==
    CASE ch = "a" -> "A"
      [] ch = "c" -> "C"
      [] ch = "u" -> "U"
      [] ch = "k" -> "K"
      [] OTHER -> ch

Lower(ch) ==
    CASE ch = "A" -> "a"
      [] ch = "C" -> "c"
      [] ch = "U" -> "u"
      [] ch = "K" -> "k"
      [] ch = "UNKNOWN" -> "Unknown"
      [] OTHER -> ch

IsAlpha(ch) == ch \in {"a", "A", "c", "C", "u", "U", "k", "K", "UNKNOWN", "Unknown"}

RECURSIVE LStrip(_)
LStrip(s) == IF s # <<>> /\ IsSpace(Head(s)) THEN LStrip(Tail(s)) ELSE s

RECURSIVE RStrip(_)
RStrip(s) ==
    IF s # <<>> /\ IsSpace(s[Len(s)]) THEN RStrip(SubSeq(s, 1, Len(s) - 1)) ELSE s

\* str.strip()
Strip(s) == RStrip(LStrip(s))

\* str.upper()
StrUpper(s) == [i \in 1..Len(s) |-> Upper(s[i])]

\* str.title(): a letter after a non-letter is upper-cased, any other lower-cased
StrTitle(s) ==
    [i \in 1..Len(s) |->
        IF i = 1 \/ ~IsAlpha(s[i - 1])
        THEN (IF s[i] = "UNKNOWN" THEN "Unknown" ELSE Upper(s[i]))
        ELSE Lower(s[i])]

\* astype(str): NaN prints as 'nan'
AsStr(s) == IF IsNaText(s) THEN <<"n", "a", "n">> ELSE s

\* str.startswith('C', na=False)
StartsWithC(s) == s # <<>> /\ Head(s) = "C"

UNKNOWN_PRODUCT == <<"UNKNOWN PRODUCT">>
UNKNOWN_COUNTRY == <<"UNKNOWN">>

\* --------------------------------------------------------------- sequences
SeqsUpTo(S, n) == UNION {[1..k -> S] : k \in 0..n}

\* ------------------------------------------------------- DataQualityTracker
\* DataQualityTracker.__init__
NewTracker(batch_id) == [batch_id |-> batch_id, metrics |-> <<>>, quarantine_records |-> <<>>]

\* add_metric with rows_passed stored in rows_processed as well
add_metric_PassedAsProcessed(trk, rule_name, category, rows_processed, rows_passed, rows_quarantined, rows_dropped, now, notes) ==
    [trk EXCEPT !.metrics = Append(@,
        [batch_id |-> trk.batch_id,
         rule_name |-> rule_name,
         rule_category |-> category,
         rows_processed |-> rows_passed,
         rows_passed |-> rows_passed,
         rows_quarantined |-> rows_quarantined,
         rows_dropped |-> rows_dropped,
         execution_timestamp |-> now,
         notes |-> notes])]

\* DataQualityTracker.add_metric: one row appended to the metrics list
add_metric(trk, rule_name, category, rows_processed, rows_passed, rows_quarantined, rows_dropped, now, notes) ==
    [trk EXCEPT !.metrics = Append(@,
        [batch_id |-> trk.batch_id,
         rule_name |-> rule_name,
         rule_category |-> category,
         rows_processed |-> rows_processed,
         rows_passed |-> rows_passed,
         rows_quarantined |-> rows_quarantined,
         rows_dropped |-> rows_dropped,
         execution_timestamp |-> now,
         notes |-> notes])]

\* the entry quarantine_rows builds for one row: the raw columns as the frame
\* holds them, and the whole row (every column it has by then) as raw_row_json
QuarantineEntry(trk, row, rule_name, reason, now) ==
    [batch_id |-> trk.batch_id,
     rule_name |-> rule_name,
     dq_reason |-> reason,
     quarantined_at |-> now,
     original_invoice_no |-> row.InvoiceNo,
     original_stock_code |-> row.StockCode,
     original_description |-> row.Description,
     original_quantity |-> row.Quantity,
     original_invoice_date |-> StrDate(row.InvoiceDate),
     original_unit_price |-> row.UnitPrice,
     original_customer_id |-> row.CustomerID,
     original_country |-> row.Country,
     raw_row_json |-> row]

\* DataQualityTracker.quarantine_rows: one entry per row of df_quarantine, in order
quarantine_rows(trk, df_quarantine, rule_name, reason, now) ==
    [trk EXCEPT !.quarantine_records =
        @ \o [i \in 1..Len(df_quarantine) |->
                QuarantineEntry(trk, df_quarantine[i], rule_name, reason, now)]]

\* ------------------------------------------------------------ transform_data
\* The working state of transform_data: the frame df (a sequence of rows) and the
\* tracker. Each stage below is one block of transform_data, in source order.

\* ParseDates with the metric added whether or not a row was removed
ParseDates_AlwaysMetric(st, now) ==
    LET typed == [i \in 1..Len(st.df) |->
                    st.df[i] @@ [invoice_date |-> to_datetime(st.df[i].InvoiceDate)]]
        before == Len(typed)
        df == SelectSeq(typed, LAMBDA r : ~IsNaCell(r.invoice_date))
        removed == before - Len(df)
    IN [df |-> df,
        trk |-> add_metric(st.trk, "remove_unparseable_dates", "data_integrity",
                           before, Len(df), 0, removed, now,
                           "DQ004: Unparseable InvoiceDate")]

\* 2.1 invoice_date = to_datetime(InvoiceDate); rows with NaT are removed and
\* counted as dropped by remove_unparseable_dates
ParseDates(st, now) ==
    LET typed == [i \in 1..Len(st.df) |->
                    st.df[i] @@ [invoice_date |-> to_datetime(st.df[i].InvoiceDate)]]
        before == Len(typed)
        df == SelectSeq(typed, LAMBDA r : ~IsNaCell(r.invoice_date))
        removed == before - Len(df)
    IN [df |-> df,
        trk |-> IF removed > 0
                THEN add_metric(st.trk, "remove_unparseable_dates", "data_integrity",
                                before, Len(df), 0, removed, now,
                                "DQ004: Unparseable InvoiceDate")
                ELSE st.trk]

\* CastNumeric with customer_id filled with 0 like the two measures
CastNumeric_CustomerFilled(st) ==
    [df |-> [i \in 1..Len(st.df) |->
                LET r == st.df[i]
                    quantity == fillna0(to_numeric(r.Quantity))
                    unit_price == fillna0(to_numeric(r.UnitPrice))
                IN r @@ [quantity |-> quantity,
                         unit_price |-> unit_price,
                         customer_id |-> Num(fillna0(to_numeric(r.CustomerID))),
                         line_total |-> quantity * unit_price]],
     trk |-> st.trk]

\* 2.1/2.2 quantity, unit_price, customer_id and line_total columns
CastNumeric(st) ==
    [df |-> [i \in 1..Len(st.df) |->
                LET r == st.df[i]
                    quantity == fillna0(to_numeric(r.Quantity))
                    unit_price == fillna0(to_numeric(r.UnitPrice))
                IN r @@ [quantity |-> quantity,
                         unit_price |-> unit_price,
                         customer_id |-> to_numeric(r.CustomerID),
                         line_total |-> quantity * unit_price]],
     trk |-> st.trk]

\* the three anomaly masks
suspicious_price_mask(r) == r.unit_price > SuspiciousPrice /\ Abs(r.quantity) < LowQuantity
\* the zero-quantity mask taken on the raw column instead of the cast one
zero_qty_mask_Raw(r) == r.Quantity = Num(0)
zero_qty_mask(r) == r.quantity = 0
neg_price_mask(r) == r.unit_price < 0

\* QuarantineRule with the removal from df forgotten: quarantined rows stay in the
\* working frame
QuarantineRule_KeepsRows(st, df_quar, kept, rule_name, reason, notes, now) ==
    LET hits == Len(df_quar)
    IN IF hits > 0
       THEN [df |-> st.df,
             trk |-> add_metric(quarantine_rows(st.trk, df_quar, rule_name, reason, now),
                                rule_name, "anomaly_detection",
                                Len(kept) + hits, Len(kept), hits, 0, now, notes)]
       ELSE st

\* one quarantine block of 2.3: the rows under the mask (df_quar) are handed to
\* quarantine_rows, df becomes the rows outside it (kept), then one metric is
\* added; nothing happens on an empty mask
QuarantineRule(st, df_quar, kept, rule_name, reason, notes, now) ==
    LET hits == Len(df_quar)
    IN IF hits > 0
       THEN [df |-> kept,
             trk |-> add_metric(quarantine_rows(st.trk, df_quar, rule_name, reason, now),
                                rule_name, "anomaly_detection",
                                Len(kept) + hits, Len(kept), hits, 0, now, notes)]
       ELSE st

QuarantineSuspicious(st, now) ==
    QuarantineRule(st, SelectSeq(st.df, suspicious_price_mask),
                   SelectSeq(st.df, LAMBDA r : ~suspicious_price_mask(r)),
                   "quarantine_suspicious_unit_price",
                   "AN001: Unit price >$10K with low quantity",
                   "AN001: Potential pricing errors", now)

QuarantineZeroQty(st, now) ==
    QuarantineRule(st, SelectSeq(st.df, zero_qty_mask),
                   SelectSeq(st.df, LAMBDA r : ~zero_qty_mask(r)),
                   "quarantine_zero_quantity",
                   "AN002: Quantity = 0", "AN002: Invalid zero quantity", now)

QuarantineNegPrice(st, now) ==
    QuarantineRule(st, SelectSeq(st.df, neg_price_mask),
                   SelectSeq(st.df, LAMBDA r : ~neg_price_mask(r)),
                   "quarantine_negative_unit_price",
                   "AN003: Negative unit price", "AN003: Invalid negative price", now)

\* DropRule that records a metric only when more than one row went
DropRule_OffByOne(st, kept, rule_name, notes, now) ==
    LET before == Len(st.df)
        removed == before - Len(kept)
    IN [df |-> kept,
        trk |-> IF removed > 1
                THEN add_metric(st.trk, rule_name, "data_integrity",
                                before, Len(kept), 0, removed, now, notes)
                ELSE st.trk]

\* DropRule with the removed rows handed to quarantine_rows as well
DropRule_Audited(st, kept, rule_name, notes, now) ==
    LET before == Len(st.df)
        removed == before - Len(kept)
        gone == SelectSeq(st.df, LAMBDA r : \A i \in 1..Len(kept) : kept[i].idx # r.idx)
    IN [df |-> kept,
        trk |-> IF removed > 0
                THEN add_metric(quarantine_rows(st.trk, gone, rule_name, notes, now),
                                rule_name, "data_integrity",
                                before, Len(kept), 0, removed, now, notes)
                ELSE st.trk]

\* one drop block of 2.4: df is replaced by the kept rows and, when rows went,
\* one metric counts them as dropped
DropRule(st, kept, rule_name, notes, now) ==
    LET before == Len(st.df)
        removed == before - Len(kept)
    IN [df |-> kept,
        trk |-> IF removed > 0
                THEN add_metric(st.trk, rule_name, "data_integrity",
                                before, Len(kept), 0, removed, now, notes)
                ELSE st.trk]

\* a row all of whose columns are NA; quantity, unit_price and line_total were
\* filled with 0 and are never NA
AllNA(r) ==
    /\ IsNaText(r.InvoiceNo) /\ IsNaText(r.StockCode) /\ IsNaText(r.Description)
    /\ IsNaCell(r.Quantity) /\ IsNaCell(r.InvoiceDate) /\ IsNaCell(r.UnitPrice)
    /\ IsNaCell(r.CustomerID) /\ IsNaText(r.Country)
    /\ IsNaCell(r.invoice_date)
    /\ FALSE   \* quantity, unit_price, line_total: not NA
    /\ IsNaCell(r.customer_id)

\* df.dropna(how='all')
DropAllNull(st, now) ==
    DropRule(st, SelectSeq(st.df, LAMBDA r : ~AllNA(r)),
             "remove_all_null_rows", "DQ001: Completely empty rows", now)

\* Columns as drop_duplicates(subset=['InvoiceNo', 'StockCode']) would compare
Columns_KeyOnly(r) == [c \in {"InvoiceNo", "StockCode"} |-> r[c]]

\* the columns drop_duplicates compares: every column of the frame, not the index
Columns(r) == [c \in (DOMAIN r) \ {"idx"} |-> r[c]]

\* df.drop_duplicates(): a row is kept unless an earlier row has the same columns
DropDuplicates(st, now) ==
    LET df == st.df
        first(i) == \A j \in 1..(i - 1) : Columns(df[j]) # Columns(df[i])
        keep == {i \in 1..Len(df) : first(i)}
        RECURSIVE pick(_)
        pick(i) == IF i > Len(df) THEN <<>>
                   ELSE (IF i \in keep THEN <<df[i]>> ELSE <<>>) \o pick(i + 1)
    IN DropRule(st, pick(1), "remove_exact_duplicates", "DQ002: Exact duplicate rows", now)

\* a row with NA in one of critical_fields; quantity and unit_price are never NA
MissingCritical(r) ==
    \/ IsNaText(r.InvoiceNo)
    \/ IsNaText(r.StockCode)
    \/ IsNaCell(r.invoice_date)

\* df.dropna(subset=critical_fields)
DropMissingCritical(st, now) ==
    DropRule(st, SelectSeq(st.df, LAMBDA r : ~MissingCritical(r)),
             "remove_missing_critical",
             "DQ003: Missing InvoiceNo/StockCode/Date/Qty/Price", now)

\* 2.5 standardized text columns
Standardize(st) ==
    [df |-> [i \in 1..Len(st.df) |->
                LET r == st.df[i]
                IN r @@ [invoice_no |-> StrUpper(Strip(AsStr(r.InvoiceNo))),
                         stock_code |-> StrUpper(Strip(AsStr(r.StockCode))),
                         description |-> Strip(IF IsNaText(r.Description)
                                               THEN UNKNOWN_PRODUCT ELSE r.Description),
                         country |-> StrTitle(Strip(IF IsNaText(r.Country)
                                                    THEN UNKNOWN_COUNTRY ELSE r.Country))]],
     trk |-> st.trk]

\* Flags with is_adjustment not looking at the customer
Flags_AdjustmentAnyCustomer(st) ==
    [df |-> [i \in 1..Len(st.df) |->
                LET r == st.df[i]
                    is_cancellation == StartsWithC(r.invoice_no)
                    is_adjustment == /\ r.quantity < 0
                                     /\ ~is_cancellation
                                     /\ r.unit_price = 0
                IN r @@ [is_cancellation |-> is_cancellation,
                         is_adjustment |-> is_adjustment,
                         is_guest_purchase |-> IsNaCell(r.customer_id),
                         is_valid_sale |-> /\ r.quantity > 0
                                           /\ r.unit_price > 0
                                           /\ ~is_cancellation,
                         is_return |-> r.quantity < 0 /\ ~is_adjustment]],
     trk |-> st.trk]

\* Flags as one priority-ordered classification: a cancellation is never a return
Flags_ExclusiveReturn(st) ==
    [df |-> [i \in 1..Len(st.df) |->
                LET r == st.df[i]
                    is_cancellation == StartsWithC(r.invoice_no)
                    is_adjustment == /\ r.quantity < 0
                                     /\ ~is_cancellation
                                     /\ r.unit_price = 0
                                     /\ IsNaCell(r.customer_id)
                IN r @@ [is_cancellation |-> is_cancellation,
                         is_adjustment |-> is_adjustment,
                         is_guest_purchase |-> IsNaCell(r.customer_id),
                         is_valid_sale |-> /\ r.quantity > 0
                                           /\ r.unit_price > 0
                                           /\ ~is_cancellation,
                         is_return |-> r.quantity < 0 /\ ~is_adjustment /\ ~is_cancellation]],
     trk |-> st.trk]

\* Flags with is_return true for every negative quantity
Flags_ReturnAnyNegative(st) ==
    [df |-> [i \in 1..Len(st.df) |->
                LET r == st.df[i]
                    is_cancellation == StartsWithC(r.invoice_no)
                    is_adjustment == /\ r.quantity < 0
                                     /\ ~is_cancellation
                                     /\ r.unit_price = 0
                                     /\ IsNaCell(r.customer_id)
                IN r @@ [is_cancellation |-> is_cancellation,
                         is_adjustment |-> is_adjustment,
                         is_guest_purchase |-> IsNaCell(r.customer_id),
                         is_valid_sale |-> /\ r.quantity > 0
                                           /\ r.unit_price > 0
                                           /\ ~is_cancellation,
                         is_return |-> r.quantity < 0]],
     trk |-> st.trk]

\* 2.6 the five business flags, each computed on its own
Flags(st) ==
    [df |-> [i \in 1..Len(st.df) |->
                LET r == st.df[i]
                    is_cancellation == StartsWithC(r.invoice_no)
                    is_adjustment == /\ r.quantity < 0
                                     /\ ~is_cancellation
                                     /\ r.unit_price = 0
                                     /\ IsNaCell(r.customer_id)
                IN r @@ [is_cancellation |-> is_cancellation,
                         is_adjustment |-> is_adjustment,
                         is_guest_purchase |-> IsNaCell(r.customer_id),
                         is_valid_sale |-> /\ r.quantity > 0
                                           /\ r.unit_price > 0
                                           /\ ~is_cancellation,
                         is_return |-> r.quantity < 0 /\ ~is_adjustment]],
     trk |-> st.trk]

\* 2.7 ETL metadata columns
Metadata(st, now) ==
    [df |-> [i \in 1..Len(st.df) |->
                st.df[i] @@ [loaded_at |-> now,
                             batch_id |-> st.trk.batch_id,
                             source_file |-> "online_retail.csv"]],
     trk |-> st.trk]

\* the blocks of transform_data in source order
StageNames ==
    <<"parse_dates", "cast_numeric", "suspicious_unit_price", "zero_quantity",
      "negative_unit_price", "all_null_row", "exact_duplicate",
      "missing_critical_field", "standardize", "flags", "metadata">>
NStages == Len(StageNames)
\* Stage with the zero-quantity block run before the suspicious-price block
Stage_ZeroQtyFirst(k, st, now) ==
    CASE k = 1 -> ParseDates(st, now)
      [] k = 2 -> CastNumeric(st)
      [] k = 3 -> QuarantineZeroQty(st, now)
      [] k = 4 -> QuarantineSuspicious(st, now)
      [] k = 5 -> QuarantineNegPrice(st, now)
      [] k = 6 -> DropAllNull(st, now)
      [] k = 7 -> DropDuplicates(st, now)
      [] k = 8 -> DropMissingCritical(st, now)
      [] k = 9 -> Standardize(st)
      [] k = 10 -> Flags(st)
      [] k = 11 -> Metadata(st, now)

Stage(k, st, now) ==
    CASE k = 1 -> ParseDates(st, now)
      [] k = 2 -> CastNumeric(st)
      [] k = 3 -> QuarantineSuspicious(st, now)
      [] k = 4 -> QuarantineZeroQty(st, now)
      [] k = 5 -> QuarantineNegPrice(st, now)
      [] k = 6 -> DropAllNull(st, now)
      [] k = 7 -> DropDuplicates(st, now)
      [] k = 8 -> DropMissingCritical(st, now)
      [] k = 9 -> Standardize(st)
      [] k = 10 -> Flags(st)
      [] k = 11 -> Metadata(st, now)

RECURSIVE StagesFrom(_, _, _)
StagesFrom(k, st, now) ==
    IF k > NStages THEN st ELSE StagesFrom(k + 1, Stage(k, st, now), now)

\* transform_data(df, dq_tracker): returns the cleaned frame and the tracker as
\* the calls left it
transform_data(rows, trk, now) == StagesFrom(1, [df |-> rows, trk |-> trk], now)

\* ---------------------------------------------------------------- extraction
\* a source row as read_csv yields it, before an index label is attached
RawRow(inv, stock, desc, qty, date, price, cust, country) ==
    [InvoiceNo |-> inv, StockCode |-> stock, Description |-> desc, Quantity |-> qty,
     InvoiceDate |-> date, UnitPrice |-> price, CustomerID |-> cust, Country |-> country]

None == [none |-> TRUE, cols |-> FALSE, rows |-> <<>>]

\* pd.read_csv: the rows of the file under a RangeIndex
read_csv(csv) ==
    [none |-> FALSE, cols |-> csv.kind = "ok",
     rows |-> [i \in 1..Len(csv.rows) |-> csv.rows[i] @@ [idx |-> i - 1]]]

\* a source file: absent, unreadable, readable without the expected columns
\* ("nocols"), or readable ("ok")
Readable(csv) == csv.kind \in {"nocols", "ok"}

\* extract_data(csv_path)
extract_data(csv) == IF Readable(csv) THEN read_csv(csv) ELSE None

\* extract_data_incremental(csv_path, last_batch_date); last_batch_date NaN is None.
\* With a cursor, InvoiceDate is overwritten by its parsed value and only rows
\* strictly after the cursor stay; a missing column raises inside the try
extract_data_incremental(csv, last_batch_date) ==
    IF ~Readable(csv) THEN None
    ELSE IF IsNaCell(last_batch_date) THEN read_csv(csv)
    ELSE IF csv.kind = "nocols" THEN None
    ELSE LET df == read_csv(csv)
             parsed == [i \in 1..Len(df.rows) |->
                          [df.rows[i] EXCEPT !.InvoiceDate = to_datetime(@)]]
         IN [df EXCEPT !.rows =
                SelectSeq(parsed, LAMBDA r : /\ ~IsNaCell(r.InvoiceDate)
                                             /\ r.InvoiceDate.n > last_batch_date.n)]

\* the error extraction logs when it returns None
ExtractError(csv) ==
    CASE csv.kind = "absent" -> "CSV file not found"
      [] csv.kind = "unreadable" -> "read error"
      [] OTHER -> "KeyError: InvoiceDate"

\* ------------------------------------------------- transform_data on its own
\* Source rows for the specification of transform_data alone: every combination
\* of the quantities and prices the anomaly rules tell apart, and rows that
\* differ in invoice number and date.
GridRows ==
    {RawRow(<<"c", "1">>, <<"a">>, <<>>, q, DateUS(2), pr, Num(7), <<"u", "k">>) :
        q \in {Junk, Num(0), Num(-3), Num(5)},
        pr \in {Num(-1), Num(0), Num(5), Num(15000)}}
IdentRows ==
    {RawRow(inv, <<"a">>, <<>>, Num(5), d, Num(5), NaN, <<>>) :
        inv \in {<<>>, <<"1">>}, d \in {Junk, DateUS(1)}}
TRows == GridRows \cup IdentRows

TSources == {[kind |-> "ok", rows |-> rs] : rs \in SeqsUpTo(TRows, MaxRows) \ {<<>>}}
TInputs ==
    {[csv |-> c, mode |-> "full", last |-> NaN] : c \in TSources}
    \cup {[csv |-> c, mode |-> "incremental", last |-> l] :
            c \in TSources, l \in {NaN, Timestamp(1)}}

EmptySt == [df |-> <<>>, trk |-> NewTracker(0)]
TDone == NStages + 1
TSkipped == NStages + 2

\* ------------------------------------------------------------ CacheManager
\* handlers/cache_manager.py. Values and results are written as strings: "None"
\* is Python's None, "True"/"False" the booleans. A Redis entry is the pickled
\* value and the instant it expires; a Redis reply of nil is the empty bytes.
Keys == {"k1", "k2"}
Values == {"None", "a"}
Missing == "MISSING"
NoEntry == [data |-> <<>>, expires |-> 0]
NoOp == [op |-> "none", key |-> "k1", ret |-> "None", raised |-> FALSE, at |-> 0]

\* no CacheManager constructed yet; the Redis database is empty
NoCache ==
    [cache_type |-> "none",
     memory_cache |-> [k \in Keys |-> Missing],
     redis |-> [k \in Keys |-> NoEntry],
     after |-> [k \in Keys |-> [op |-> "none", value |-> "None", raised |-> FALSE]],
     last |-> NoOp]

\* pickle.dumps / pickle.loads
pickle_dumps(v) == <<"pickle", v>>
\* pickle.loads left out: the bytes are handed back as they are
pickle_loads_Skipped(b) == "bytes"
pickle_loads(b) == b[2]

\* Redis GET at instant now: the bytes of a live key, nil for a missing or
\* expired one
redis_get(c, k, now) ==
    IF c.redis[k] # NoEntry /\ now < c.redis[k].expires THEN c.redis[k].data ELSE <<>>

\* what get(key) returns when no exception is raised (lines 68-80)
Lookup(c, k, now) ==
    IF c.cache_type = "redis"
    THEN LET value == redis_get(c, k, now)
         IN IF value # <<>> THEN pickle_loads(value) ELSE "None"
    ELSE IF c.memory_cache[k] # Missing THEN c.memory_cache[k] ELSE "None"

\* what exists(key) returns when no exception is raised (lines 174-177)
Present(c, k, now) ==
    IF c.cache_type = "redis" THEN redis_get(c, k, now) # <<>>
    ELSE c.memory_cache[k] # Missing

Str(b) == IF b THEN "True" ELSE "False"

\* the state before any run: an empty database, an idle process
Procs == {1}
NoMsg == "NULL"
IdleRun ==
    [batch_id |-> 0, batch_start |-> 0, mode |-> "full", connection |-> FALSE,
     txfail |-> FALSE, last_batch_date |-> NaN, src |-> [kind |-> "absent", rows |-> <<>>],
     df |-> None, rows_extracted |-> 0, st |-> EmptySt, transformed |-> FALSE, i |-> 0,
     success_staging |-> FALSE, success_quarantine |-> FALSE, success_metrics |-> FALSE,
     exc |-> NoMsg, cause |-> NoMsg, ret |-> "none", exit_code |-> -1,
     issued |-> [stg |-> 0, quar |-> 0, met |-> 0],
     logs |-> <<>>, prior |-> 0, fresh |-> TRUE]

PipeInit ==
    /\ clock = 0
    /\ stg = <<>> /\ quar = <<>> /\ met = <<>> /\ batchlog = <<>>
    /\ faults = 0
    /\ pc = [p \in Procs |-> "idle"]
    /\ run = [p \in Procs |-> IdleRun]
    /\ ids = {}
    /\ succ_max = 0
    /\ cm = NoCache
    /\ taken = [p \in Procs |-> "none"]

TIdle ==
    /\ tsrc = [csv |-> [kind |-> "absent", rows |-> <<>>], mode |-> "full", last |-> NaN]
    /\ tst = [frame |-> None, st |-> EmptySt]
    /\ tk = 0

TInit ==
    /\ PipeInit
    /\ tsrc \in TInputs
    /\ tst = [frame |-> None, st |-> EmptySt]
    /\ tk = 0

\* run_etl_pipeline, extraction: the frame the chosen mode extracts; an empty
\* frame ends the batch before transform_data
TExtract ==
    /\ tk = 0
    /\ LET frame == IF tsrc.mode = "incremental"
                    THEN extract_data_incremental(tsrc.csv, tsrc.last)
                    ELSE extract_data(tsrc.csv)
       IN /\ tst' = [frame |-> frame, st |-> [df |-> frame.rows, trk |-> NewTracker(0)]]
          /\ tk' = IF Len(frame.rows) = 0 THEN TSkipped ELSE 1
    /\ UNCHANGED <<tsrc, pipeVars>>

\* one block of transform_data
TStage ==
    /\ tk \in 1..NStages
    /\ tst' = [tst EXCEPT !.st = Stage(tk, @, 0)]
    /\ tk' = tk + 1
    /\ UNCHANGED <<tsrc, pipeVars>>

TNext == TExtract \/ TStage

SpecT == TInit /\ [][TNext]_vars

\* Source rows for the specification of transform_data on classification and
\* cleaning: returns with and without the cancellation marker, price 0 and
\* customer absent; sales with a missing or unparseable price or customer; a
\* cancellation of positive quantity; an invoice number that gets its marker by
\* trimming and upper-casing; rows without invoice number or stock code; rows
\* that differ from the plain sale in one field only (the description, the
\* spelling of the date); and a row with every field empty.
FRow(inv, qty, price, cust) ==
    RawRow(inv, <<"a">>, <<"d">>, qty, DateUS(2), price, cust, <<"u", "k">>)
PlainSale == FRow(<<"1">>, Num(5), Num(5), Num(7))
EmptyRow == RawRow(<<>>, <<>>, <<>>, NaN, NaN, NaN, NaN, <<>>)
FRows ==
    {FRow(inv, Num(-3), pr, cust) :
        inv \in {<<"C", "1">>, <<"1">>}, pr \in {Num(0), Num(5)}, cust \in {NaN, Num(7)}}
    \cup {PlainSale,
          FRow(<<"1">>, Num(5), Junk, Num(7)),
          FRow(<<"1">>, Num(5), NaN, Num(7)),
          FRow(<<"1">>, Num(5), Num(5), Junk),
          FRow(<<"C", "1">>, Num(5), Num(5), Num(7)),
          FRow(<<" ", "c", "1">>, Num(-3), Num(5), Num(7)),
          FRow(<<>>, Num(5), Num(5), Num(7)),
          [PlainSale EXCEPT !.StockCode = <<>>],
          [PlainSale EXCEPT !.Description = <<>>],
          [PlainSale EXCEPT !.InvoiceDate = DateISO(2)],
          EmptyRow}

FSources == {[kind |-> "ok", rows |-> rs] : rs \in SeqsUpTo(FRows, MaxRows) \ {<<>>}}
FInputs ==
    {[csv |-> c, mode |-> "full", last |-> NaN] : c \in FSources}
    \cup {[csv |-> c, mode |-> "incremental", last |-> Timestamp(1)] : c \in FSources}

FInit ==
    /\ PipeInit
    /\ tsrc \in FInputs
    /\ tst = [frame |-> None, st |-> EmptySt]
    /\ tk = 0

SpecF == FInit /\ [][TNext]_vars

\* Source rows for the specification of transform_data on the order of its
\* rules: a plain sale and rows that meet the conditions of several rules at
\* once (quantity 0 with a price over 10000 or under 0, an unparseable quantity,
\* an unparseable date on an anomalous row, a row with every field empty), rows
\* that meet one condition (a negative price, no invoice number, no price), each
\* of which may come twice.
RRow(qty, date, price) ==
    RawRow(<<"1">>, <<"a">>, <<"d">>, qty, date, price, Num(7), <<"u", "k">>)
RRows ==
    {RRow(Num(5), DateUS(2), Num(5)),
     RRow(Num(0), DateUS(2), Num(15000)),
     RRow(Num(0), DateUS(2), Num(-1)),
     RRow(Junk, DateUS(2), Num(5)),
     RRow(Num(0), Junk, Num(15000)),
     RRow(Num(5), DateUS(2), Num(-1)),
     RRow(Num(5), DateUS(2), NaN),
     FRow(<<>>, Num(5), Num(5), Num(7)),
     EmptyRow}

RSources == {[kind |-> "ok", rows |-> rs] : rs \in SeqsUpTo(RRows, MaxRows) \ {<<>>}}
RInputs ==
    {[csv |-> c, mode |-> "full", last |-> NaN] : c \in RSources}
    \cup {[csv |-> c, mode |-> "incremental", last |-> Timestamp(1)] : c \in RSources}

RInit ==
    /\ PipeInit
    /\ tsrc \in RInputs
    /\ tst = [frame |-> None, st |-> EmptySt]
    /\ tk = 0

SpecR == RInit /\ [][TNext]_vars

\* ------------------------------------------------------------ the warehouse
\* Source files of the orchestrator's runs: a sale at instant 1 or 2, a row with
\* quantity 0, a row with an unparseable date
RowSale(k) == RawRow(<<"1">>, <<"a">>, <<"d">>, Num(5), DateUS(k), Num(5), Num(7), <<"u", "k">>)
RowZeroQty == RawRow(<<"1">>, <<"a">>, <<"d">>, Num(0), DateUS(1), Num(5), Num(7), <<"u", "k">>)
RowBadDate == RawRow(<<"1">>, <<"a">>, <<"d">>, Num(5), Junk, Num(5), Num(7), <<"u", "k">>)
SRows == {RowSale(1), RowSale(2), RowZeroQty, RowBadDate}

Sources ==
    {[kind |-> "absent", rows |-> <<>>], [kind |-> "unreadable", rows |-> <<>>],
     [kind |-> "nocols", rows |-> <<RowBadDate>>]}
    \cup {[kind |-> "ok", rows |-> rs] : rs \in SeqsUpTo(SRows, MaxRows)}

\* run_sql_query returns True or False. forced: the statement cannot succeed (the
\* transaction is aborted, a key is taken, the SQL text is invalid); otherwise
\* the database may still refuse it, MaxFaults times in all
Outcomes(forced) ==
    IF forced THEN {FALSE}
    ELSE {TRUE} \cup (IF faults < MaxFaults THEN {FALSE} ELSE {})

Charged(forced, ok) == IF ~ok /\ ~forced THEN faults + 1 ELSE faults

\* the first error that made the batch fail, as the failing step logs it
SetCause(r, msg) == IF r.cause = NoMsg THEN msg ELSE r.cause

\* Inserted without the rollback: the rows of a failed INSERT stay
Inserted_NoRollback(tbl, rows, ok) == tbl \o rows

\* a committed INSERT appends its rows; a failed one is rolled back
Inserted(tbl, rows, ok) == IF ok THEN tbl \o rows ELSE tbl

\* the status of the batch-log record of a batch_id, "none" without one
StatusOf(batch_id) ==
    IF \E i \in 1..Len(batchlog) : batchlog[i].batch_id = batch_id
    THEN batchlog[CHOOSE i \in 1..Len(batchlog) : batchlog[i].batch_id = batch_id].status
    ELSE "none"

\* ------------------------------------------------------------ run_etl_pipeline
\* lines 719-735: batch_start, batch_id (the start time to the second), the
\* tracker, and the connection, which may fail
StartRun(p) ==
    /\ pc[p] \in {"idle", "exited"}
    /\ \E mode \in {"full", "incremental"}, ok \in BOOLEAN :
        /\ run' = [run EXCEPT ![p] =
                      [IdleRun EXCEPT !.batch_id = clock, !.batch_start = clock,
                                      !.mode = mode, !.connection = ok,
                                      !.st = [df |-> <<>>, trk |-> NewTracker(clock)],
                                      !.exc = IF ok THEN NoMsg ELSE "Connection failed",
                                      !.cause = IF ok THEN NoMsg ELSE "Connection failed",
                                      !.prior = succ_max,
                                      !.fresh = clock \notin ids]]
        /\ pc' = [pc EXCEPT ![p] = IF ok THEN "create_tables" ELSE "except"]
    /\ ids' = ids \cup {clock}
    /\ UNCHANGED <<clock, stg, quar, met, batchlog, faults, succ_max, tVars>>

\* CreateTables as CREATE TABLE IF NOT EXISTS would do: the rows stay
CreateTables_KeepRows(p) ==
    /\ pc[p] = "create_tables"
    /\ pc' = [pc EXCEPT ![p] = "extract"]
    /\ UNCHANGED <<clock, stg, quar, met, batchlog, faults, run, ids, succ_max, tVars>>

\* lines 738-742: create_retail_dwh_schema and the four create_*_table calls;
\* each table is dropped and created again, empty
CreateTables(p) ==
    /\ pc[p] = "create_tables"
    /\ stg' = <<>> /\ quar' = <<>> /\ met' = <<>> /\ batchlog' = <<>>
    /\ pc' = [pc EXCEPT ![p] = "extract"]
    /\ UNCHANGED <<clock, faults, run, ids, succ_max, tVars>>

\* the greater of two instants
Max2(a, b) == IF a > b THEN a ELSE b

RECURSIVE MaxDate(_)
\* MAX(invoice_date) over staging rows, 0 for none
MaxDate(rows) == IF rows = <<>> THEN 0 ELSE Max2(Head(rows).invoice_date.n, MaxDate(Tail(rows)))

\* get_last_successful_batch_timestamp without WHERE log.status = 'SUCCESS': any
\* batch-log row makes the rows of its batch count
get_last_batch_timestamp_AnyStatus(ok) ==
    LET good == {batchlog[i].batch_id : i \in 1..Len(batchlog)}
        m == MaxDate(SelectSeq(stg, LAMBDA r : r.batch_id \in good))
    IN IF ok /\ m > 0 THEN Timestamp(m) ELSE NaN

\* get_last_successful_batch_timestamp: the greatest invoice_date of the staging
\* rows joined to a batch-log row with status SUCCESS; None (NaN) for none, and
\* when the query raises
get_last_successful_batch_timestamp(ok) ==
    LET good == {batchlog[i].batch_id :
                    i \in {j \in 1..Len(batchlog) : batchlog[j].status = "SUCCESS"}}
        m == MaxDate(SelectSeq(stg, LAMBDA r : r.batch_id \in good))
    IN IF ok /\ m > 0 THEN Timestamp(m) ELSE NaN

\* Extract without the test for an empty frame (lines 757-763 missing): an empty
\* frame goes on to transform_data
Extract_NoEmptyCheck(p) ==
    /\ pc[p] = "extract"
    /\ \E csv \in Sources :
       \E ok \in (IF run[p].mode = "incremental" THEN Outcomes(FALSE) ELSE {TRUE}) :
        LET incremental == run[p].mode = "incremental"
            last == IF incremental THEN get_last_successful_batch_timestamp(ok) ELSE NaN
            df == IF incremental THEN extract_data_incremental(csv, last)
                  ELSE extract_data(csv)
        IN /\ run' = [run EXCEPT ![p] =
                         [@ EXCEPT !.src = csv, !.last_batch_date = last, !.df = df,
                                   !.txfail = ~ok,
                                   !.rows_extracted = Len(df.rows),
                                   !.exc = IF df.none THEN "Extraction failed" ELSE @,
                                   !.cause = IF df.none THEN ExtractError(csv) ELSE @]]
           /\ pc' = [pc EXCEPT ![p] = IF df.none THEN "except"
                                       ELSE "transform"]
           /\ faults' = IF incremental THEN Charged(FALSE, ok) ELSE faults
    /\ UNCHANGED <<clock, stg, quar, met, batchlog, ids, succ_max, tVars>>

\* lines 747-765: extraction in the chosen mode, then the three ways on: None
\* raises "Extraction failed", an empty frame goes to the no-data log, anything
\* else sets rows_extracted and goes to transform_data
Extract(p) ==
    /\ pc[p] = "extract"
    /\ \E csv \in Sources :
       \E ok \in (IF run[p].mode = "incremental" THEN Outcomes(FALSE) ELSE {TRUE}) :
        LET incremental == run[p].mode = "incremental"
            last == IF incremental THEN get_last_successful_batch_timestamp(ok) ELSE NaN
            df == IF incremental THEN extract_data_incremental(csv, last)
                  ELSE extract_data(csv)
        IN /\ run' = [run EXCEPT ![p] =
                         [@ EXCEPT !.src = csv, !.last_batch_date = last, !.df = df,
                                   !.txfail = ~ok,
                                   !.rows_extracted = Len(df.rows),
                                   !.exc = IF df.none THEN "Extraction failed" ELSE @,
                                   !.cause = IF df.none THEN ExtractError(csv) ELSE @]]
           /\ pc' = [pc EXCEPT ![p] = IF df.none THEN "except"
                                       ELSE IF Len(df.rows) = 0 THEN "log_nodata"
                                       ELSE "transform"]
           /\ faults' = IF incremental THEN Charged(FALSE, ok) ELSE faults
    /\ UNCHANGED <<clock, stg, quar, met, batchlog, ids, succ_max, tVars>>

\* line 768: transform_data; a frame without the expected columns raises KeyError
Transform(p) ==
    /\ pc[p] = "transform"
    /\ IF run[p].df.cols
       THEN /\ run' = [run EXCEPT ![p] =
                          [@ EXCEPT !.st = transform_data(run[p].df.rows, @.trk, clock),
                                    !.transformed = TRUE, !.i = 0]]
            /\ pc' = [pc EXCEPT ![p] = "load_staging"]
       ELSE /\ run' = [run EXCEPT ![p] =
                          [@ EXCEPT !.transformed = TRUE,
                                    !.exc = "KeyError: InvoiceDate",
                                    !.cause = "KeyError: InvoiceDate"]]
            /\ pc' = [pc EXCEPT ![p] = "except"]
    /\ UNCHANGED <<clock, stg, quar, met, batchlog, faults, ids, succ_max, tVars>>

\* the columns load_to_staging selects (column_mapping)
StagingColumns ==
    {"invoice_no", "stock_code", "description", "quantity", "invoice_date", "unit_price",
     "customer_id", "country", "line_total", "is_cancellation", "is_adjustment",
     "is_guest_purchase", "is_valid_sale", "is_return", "loaded_at", "batch_id",
     "source_file"}
StagingRow(r) == [c \in StagingColumns |-> r[c]]

total_chunks(n) == (n + chunk_size - 1) \div chunk_size

\* Chunk with the slice one row short: df_load[start_idx:end_idx - 1]
Chunk_OneShort(df, i) ==
    LET start_idx == i * chunk_size
        end_idx == IF start_idx + chunk_size < Len(df) THEN start_idx + chunk_size ELSE Len(df)
    IN [j \in 1..(end_idx - 1 - start_idx) |-> StagingRow(df[start_idx + j])]

\* the i-th chunk (from 0) of df_load
Chunk(df, i) ==
    LET start_idx == i * chunk_size
        end_idx == IF start_idx + chunk_size < Len(df) THEN start_idx + chunk_size ELSE Len(df)
    IN [j \in 1..(end_idx - start_idx) |-> StagingRow(df[start_idx + j])]

\* where run_etl_pipeline goes once the three loads have returned (lines 775-779)
AfterLoads(r) ==
    IF r.success_staging /\ r.success_quarantine /\ r.success_metrics
    THEN "log_success" ELSE "except"

RaisedAfterLoads(r) ==
    IF r.success_staging /\ r.success_quarantine /\ r.success_metrics
    THEN r.exc ELSE "Loading failed"

\* load_to_staging, one pass of its loop: the next chunk is inserted and committed
\* on its own; a failed insert returns False at once, the last chunk (or no chunk
\* at all) returns True. load_quarantine is called next in either case
LoadStaging(p) ==
    /\ pc[p] = "load_staging"
    /\ LET r == run[p]
           n == Len(r.st.df)
           forced == r.txfail
       IN IF total_chunks(n) = 0
          THEN /\ run' = [run EXCEPT ![p] = [@ EXCEPT !.success_staging = TRUE, !.i = 0]]
               /\ pc' = [pc EXCEPT ![p] = "load_quarantine"]
               /\ UNCHANGED <<stg, faults>>
          ELSE \E ok \in Outcomes(forced) :
               /\ stg' = Inserted(stg, Chunk(r.st.df, r.i), ok)
               /\ faults' = Charged(forced, ok)
               /\ LET last == ~ok \/ r.i + 1 = total_chunks(n)
                  IN /\ run' = [run EXCEPT ![p] =
                                  [@ EXCEPT !.txfail = FALSE,
                                            !.issued.stg = @ + 1,
                                            !.success_staging = ok,
                                            !.cause = IF ok THEN @
                                                      ELSE SetCause(r, "Query failed: staging"),
                                            !.i = IF last THEN 0 ELSE @ + 1]]
                     /\ pc' = [pc EXCEPT ![p] = IF last THEN "load_quarantine"
                                                 ELSE "load_staging"]
    /\ UNCHANGED <<clock, quar, met, batchlog, ids, succ_max, tVars>>

\* a value the INSERT of load_quarantine writes unquoted must be a number or NULL
SqlNumber(c) == c.t \in {"num", "nan"}
ValidQuarantineSql(e) ==
    /\ SqlNumber(e.original_quantity)
    /\ SqlNumber(e.original_unit_price)
    /\ SqlNumber(e.original_customer_id)

\* load_quarantine, one pass of its loop: one INSERT per quarantine entry; an
\* empty collection returns True without a statement. load_dq_metrics is called
\* next in either case
LoadQuarantine(p) ==
    /\ pc[p] = "load_quarantine"
    /\ LET r == run[p]
           recs == r.st.trk.quarantine_records
       IN IF recs = <<>>
          THEN /\ run' = [run EXCEPT ![p] = [@ EXCEPT !.success_quarantine = TRUE, !.i = 0]]
               /\ pc' = [pc EXCEPT ![p] = "load_metrics"]
               /\ UNCHANGED <<quar, faults>>
          ELSE LET forced == r.txfail \/ ~ValidQuarantineSql(recs[r.i + 1])
               IN \E ok \in Outcomes(forced) :
                  /\ quar' = Inserted(quar, <<recs[r.i + 1]>>, ok)
                  /\ faults' = Charged(forced, ok)
                  /\ LET last == ~ok \/ r.i + 1 = Len(recs)
                     IN /\ run' = [run EXCEPT ![p] =
                                     [@ EXCEPT !.txfail = FALSE,
                                               !.issued.quar = @ + 1,
                                               !.success_quarantine = ok,
                                               !.cause = IF ok THEN @
                                                         ELSE SetCause(r, "Query failed: quarantine"),
                                               !.i = IF last THEN 0 ELSE @ + 1]]
                        /\ pc' = [pc EXCEPT ![p] = IF last THEN "load_metrics"
                                                    ELSE "load_quarantine"]
    /\ UNCHANGED <<clock, stg, met, batchlog, ids, succ_max, tVars>>

\* load_dq_metrics, one pass of its loop: one INSERT per metric; then lines
\* 775-776: unless all three loads returned True, "Loading failed" is raised
LoadMetrics(p) ==
    /\ pc[p] = "load_metrics"
    /\ LET r == run[p]
           ms == r.st.trk.metrics
       IN IF ms = <<>>
          THEN LET r2 == [r EXCEPT !.success_metrics = TRUE, !.i = 0]
               IN /\ run' = [run EXCEPT ![p] = [r2 EXCEPT !.exc = RaisedAfterLoads(r2)]]
                  /\ pc' = [pc EXCEPT ![p] = AfterLoads(r2)]
                  /\ UNCHANGED <<met, faults>>
          ELSE LET forced == r.txfail
               IN \E ok \in Outcomes(forced) :
                  /\ met' = Inserted(met, <<ms[r.i + 1]>>, ok)
                  /\ faults' = Charged(forced, ok)
                  /\ LET last == ~ok \/ r.i + 1 = Len(ms)
                         r2 == [r EXCEPT !.txfail = FALSE,
                                         !.issued.met = @ + 1,
                                         !.success_metrics = ok,
                                         !.cause = IF ok THEN @
                                                   ELSE SetCause(r, "Query failed: metrics"),
                                         !.i = IF last THEN 0 ELSE @ + 1]
                     IN /\ run' = [run EXCEPT ![p] =
                                     IF last THEN [r2 EXCEPT !.exc = RaisedAfterLoads(r2)]
                                     ELSE r2]
                        /\ pc' = [pc EXCEPT ![p] = IF last THEN AfterLoads(r2)
                                                    ELSE "load_metrics"]
    /\ UNCHANGED <<clock, stg, quar, batchlog, ids, succ_max, tVars>>

\* Batch with the error message left out
Batch_NoError(r, status, rows_extracted, rows_loaded, rows_quarantined, error_msg) ==
    [batch_id |-> r.batch_id,
     batch_start |-> r.batch_start,
     batch_end |-> clock,
     status |-> status,
     rows_extracted |-> rows_extracted,
     rows_loaded_staging |-> rows_loaded,
     rows_quarantined |-> rows_quarantined,
     error_message |-> NoMsg,
     execution_duration_seconds |-> clock - r.batch_start]

\* the row log_batch_execution inserts; an empty error_msg is stored as NULL
Batch(r, status, rows_extracted, rows_loaded, rows_quarantined, error_msg) ==
    [batch_id |-> r.batch_id,
     batch_start |-> r.batch_start,
     batch_end |-> clock,
     status |-> status,
     rows_extracted |-> rows_extracted,
     rows_loaded_staging |-> rows_loaded,
     rows_quarantined |-> rows_quarantined,
     error_message |-> error_msg,
     execution_duration_seconds |-> clock - r.batch_start]

\* batch_id is the primary key of meta_etl_batch_log
KeyTaken(batch_id) == \E i \in 1..Len(batchlog) : batchlog[i].batch_id = batch_id

\* the INSERT of log_batch_execution cannot succeed
LogForced(r) == r.txfail \/ KeyTaken(r.batch_id)

\* log_batch_execution followed by the return of run_etl_pipeline (the finally
\* clause closes the connection): the row is inserted if the database takes it,
\* and the result of the insert is not looked at
LogAndReturn(p, rec, ok, ret) ==
    /\ batchlog' = Inserted(batchlog, <<rec>>, ok)
    /\ faults' = Charged(LogForced(run[p]), ok)
    /\ run' = [run EXCEPT ![p] = [@ EXCEPT !.txfail = FALSE,
                                           !.logs = Append(@, [rec |-> rec, ok |-> ok]),
                                           !.ret = ret]]
    /\ pc' = [pc EXCEPT ![p] = "returned"]

\* lines 757-763: the empty batch is logged SUCCESS_NO_DATA and True is returned
LogNoData(p) ==
    /\ pc[p] = "log_nodata"
    /\ \E ok \in Outcomes(LogForced(run[p])) :
        LogAndReturn(p, Batch(run[p], "SUCCESS_NO_DATA", 0, 0, 0, "No new data to process"),
                     ok, TRUE)
    /\ UNCHANGED <<clock, stg, quar, met, ids, succ_max, tVars>>

\* lines 779-801: the batch is logged SUCCESS with its three counts and True is
\* returned
LogSuccess(p) ==
    /\ pc[p] = "log_success"
    /\ \E ok \in Outcomes(LogForced(run[p])) :
        /\ LogAndReturn(p, Batch(run[p], "SUCCESS", run[p].rows_extracted,
                                  Len(run[p].st.df),
                                  Len(run[p].st.trk.quarantine_records), NoMsg),
                        ok, TRUE)
        /\ succ_max' = IF ok THEN Max2(succ_max, MaxDate(run[p].st.df)) ELSE succ_max
    /\ UNCHANGED <<clock, stg, quar, met, ids, tVars>>

\* Except without the call of log_batch_execution
Except_NoLog(p) ==
    /\ pc[p] = "except"
    /\ run' = [run EXCEPT ![p] = [@ EXCEPT !.ret = FALSE]]
    /\ pc' = [pc EXCEPT ![p] = "returned"]
    /\ UNCHANGED <<clock, stg, quar, met, batchlog, faults, ids, succ_max, tVars>>

\* Except with the counts the run had reached written into the FAILED record
Except_WithCounts(p) ==
    /\ pc[p] = "except"
    /\ IF run[p].connection
       THEN \E ok \in Outcomes(LogForced(run[p])) :
               LogAndReturn(p, Batch(run[p], "FAILED", run[p].rows_extracted,
                                     Len(stg),
                                     Len(quar), run[p].exc),
                            ok, FALSE)
       ELSE /\ run' = [run EXCEPT ![p] = [@ EXCEPT !.ret = FALSE]]
            /\ pc' = [pc EXCEPT ![p] = "returned"]
            /\ UNCHANGED <<batchlog, faults>>
    /\ UNCHANGED <<clock, stg, quar, met, ids, succ_max, tVars>>

\* lines 803-816: the handler logs the batch FAILED with zero counts and the text
\* of the exception, if there is a connection, and False is returned
Except(p) ==
    /\ pc[p] = "except"
    /\ IF run[p].connection
       THEN \E ok \in Outcomes(LogForced(run[p])) :
               LogAndReturn(p, Batch(run[p], "FAILED", 0, 0, 0, run[p].exc), ok, FALSE)
       ELSE /\ run' = [run EXCEPT ![p] = [@ EXCEPT !.ret = FALSE]]
            /\ pc' = [pc EXCEPT ![p] = "returned"]
            /\ UNCHANGED <<batchlog, faults>>
    /\ UNCHANGED <<clock, stg, quar, met, ids, succ_max, tVars>>

\* lines 818-820: __main__ drops the value run_etl_pipeline returned and the
\* interpreter exits with status 0; the frames of the run are gone with it
Exit(p) ==
    /\ pc[p] = "returned"
    /\ run' = [run EXCEPT ![p] =
                  [IdleRun EXCEPT
                                  !.ret = run[p].ret,
                                  !.exit_code = 0]]
    /\ pc' = [pc EXCEPT ![p] = "exited"]
    /\ UNCHANGED <<clock, stg, quar, met, batchlog, faults, ids, succ_max, tVars>>

\* a second passes
Tick ==
    /\ clock < MaxClock
    /\ clock' = clock + 1
    /\ UNCHANGED <<stg, quar, met, batchlog, faults, pc, run, ids, succ_max, tVars>>

Init == PipeInit /\ TIdle

Next ==
    \/ Tick
    \/ \E p \in Procs :
        \/ StartRun(p)
        \/ CreateTables(p)
        \/ Extract(p)
        \/ Transform(p)
        \/ LoadStaging(p)
        \/ LoadQuarantine(p)
        \/ LoadMetrics(p)
        \/ LogNoData(p)
        \/ LogSuccess(p)
        \/ Except(p)
        \/ Exit(p)

Spec == Init /\ [][Next]_vars

\* CreateTables with the history kept: before the batch log is dropped, the
\* status of the record under the run's batch_id is noted in taken
CreateTablesNoted(p) ==
    /\ pc[p] = "create_tables"
    /\ taken' = [taken EXCEPT ![p] = StatusOf(run[p].batch_id)]
    /\ stg' = <<>> /\ quar' = <<>> /\ met' = <<>> /\ batchlog' = <<>>
    /\ pc' = [pc EXCEPT ![p] = "extract"]
    /\ UNCHANGED <<clock, faults, run, ids, succ_max, tsrc, tst, tk, cm>>

\* the orchestrator's runs, with that history
NextNoted ==
    \/ Tick
    \/ \E p \in Procs :
        \/ StartRun(p)
        \/ CreateTablesNoted(p)
        \/ Extract(p)
        \/ Transform(p)
        \/ LoadStaging(p)
        \/ LoadQuarantine(p)
        \/ LoadMetrics(p)
        \/ LogNoData(p)
        \/ LogSuccess(p)
        \/ Except(p)
        \/ Exit(p)

SpecNoted == Init /\ [][NextNoted]_vars

\* ------------------------------------------------- the cache's operations
\* every variable but the cache, the clock and the fault count
notCache == <<stg, quar, met, batchlog, pc, run, ids, succ_max, tsrc, tst, tk, taken>>

\* the result of an operation and the instant it was made, kept for the claims
Did(op, k, ret, raised) ==
    [op |-> op, key |-> k, ret |-> ret, raised |-> raised, at |-> clock]

\* CacheManager.__init__ (lines 15-63): Redis if it is asked for and answers the
\* ping, the in-memory dictionary otherwise
CacheManager ==
    /\ cm.cache_type = "none"
    /\ \E use_redis \in BOOLEAN, ping \in BOOLEAN :
         cm' = [cm EXCEPT !.cache_type = IF use_redis /\ ping THEN "redis" ELSE "memory"]
    /\ UNCHANGED <<clock, faults, notCache>>

\* set(key, value, ttl) (lines 85-111); ttl 0 stands for None as well: both take
\* default_ttl. With Redis the pickled value is stored with its expiry, and an
\* exception returns False; in memory the value is stored for good
set(k, v, ttl) ==
    /\ cm.cache_type \in {"redis", "memory"}
    /\ LET t == IF ttl = 0 THEN default_ttl ELSE ttl
           done == [op |-> "set", value |-> v, raised |-> FALSE]
       IN IF cm.cache_type = "redis"
          THEN \E ok \in Outcomes(FALSE) :
                 /\ cm' = IF ok
                          THEN [cm EXCEPT !.redis[k] = [data |-> pickle_dumps(v),
                                                        expires |-> clock + t],
                                          !.after[k] = done,
                                          !.last = Did("set", k, "True", FALSE)]
                          ELSE [cm EXCEPT !.last = Did("set", k, "False", TRUE)]
                 /\ faults' = Charged(FALSE, ok)
          ELSE /\ cm' = [cm EXCEPT !.memory_cache[k] = v,
                                   !.after[k] = done,
                                   !.last = Did("set", k, "True", FALSE)]
               /\ UNCHANGED faults
    /\ UNCHANGED <<clock, notCache>>

\* get(key) (lines 65-83): the unpickled value of a live key, None for a miss
\* and for an exception
get(k) ==
    /\ cm.cache_type \in {"redis", "memory"}
    /\ \E ok \in (IF cm.cache_type = "redis" THEN Outcomes(FALSE) ELSE {TRUE}) :
         /\ cm' = [cm EXCEPT !.last = Did("get", k, IF ok THEN Lookup(cm, k, clock)
                                                    ELSE "None", ~ok)]
         /\ faults' = Charged(FALSE, ok)
    /\ UNCHANGED <<clock, notCache>>

\* delete(key) (lines 113-128): True if a key was removed, False if there was
\* none and for an exception, which leaves the key
delete(k) ==
    /\ cm.cache_type \in {"redis", "memory"}
    /\ \E ok \in (IF cm.cache_type = "redis" THEN Outcomes(FALSE) ELSE {TRUE}) :
         /\ cm' = IF ok
                  THEN [cm EXCEPT !.redis[k] = NoEntry,
                                  !.memory_cache[k] = Missing,
                                  !.after[k] = [op |-> "delete", value |-> "None",
                                                raised |-> FALSE],
                                  !.last = Did("delete", k, Str(Present(cm, k, clock)),
                                               FALSE)]
                  ELSE [cm EXCEPT !.after[k] = [op |-> "delete", value |-> "None",
                                                raised |-> TRUE],
                                  !.last = Did("delete", k, "False", TRUE)]
         /\ faults' = Charged(FALSE, ok)
    /\ UNCHANGED <<clock, notCache>>

\* exists(key) (lines 171-180): False for an exception
exists(k) ==
    /\ cm.cache_type \in {"redis", "memory"}
    /\ \E ok \in (IF cm.cache_type = "redis" THEN Outcomes(FALSE) ELSE {TRUE}) :
         /\ cm' = [cm EXCEPT !.last = Did("exists", k, Str(ok /\ Present(cm, k, clock)),
                                          ~ok)]
         /\ faults' = Charged(FALSE, ok)
    /\ UNCHANGED <<clock, notCache>>

CNext ==
    \/ Tick
    \/ CacheManager
    \/ \E k \in Keys :
        \/ \E v \in Values, ttl \in {0, 1} : set(k, v, ttl)
        \/ get(k)
        \/ delete(k)
        \/ exists(k)

SpecC == Init /\ [][CNext]_vars

\* ------------------------------------------- the cursor over earlier batches
\* An incremental run arrives at extraction while the tables hold the rows and
\* records of other batches. (A run empties the tables before it extracts, so
\* this is the state another run leaves when it loads and logs in between:
\* nothing keeps two runs apart.) The batches 0 and 1 have each staged sales at
\* some of the instants 1 and 2 and have a batch-log record of some status, or
\* none.
PriorBatches == {0, 1}
PriorStatus == {"none", "SUCCESS", "SUCCESS_NO_DATA", "FAILED"}
PriorDates == {<<>>, <<1>>, <<2>>, <<1, 2>>}

\* the staging row a batch loads for a sale at instant k
PriorStaged(b, k) ==
    StagingRow(transform_data(read_csv([kind |-> "ok", rows |-> <<RowSale(k)>>]).rows, NewTracker(b), b).df[1])

PriorRows(b, dates) == [i \in 1..Len(dates) |-> PriorStaged(b, dates[i])]

\* the record a batch logs, if it logs one
PriorRecord(b, status, n) ==
    IF status = "none" THEN <<>>
    ELSE <<Batch([batch_id |-> b, batch_start |-> b], status, n, n, 0,
                 IF status = "FAILED" THEN "Loading failed" ELSE NoMsg)>>

QInit ==
    /\ clock = 1
    /\ \E d0 \in PriorDates, d1 \in PriorDates, s0 \in PriorStatus, s1 \in PriorStatus :
         /\ stg = PriorRows(0, d0) \o PriorRows(1, d1)
         /\ batchlog = PriorRecord(0, s0, Len(d0)) \o PriorRecord(1, s1, Len(d1))
    /\ quar = <<>> /\ met = <<>>
    /\ faults = 0
    /\ pc = [p \in Procs |-> "extract"]
    /\ run = [p \in Procs |->
                 [IdleRun EXCEPT !.batch_id = 1, !.batch_start = 1,
                                 !.mode = "incremental", !.connection = TRUE,
                                 !.st = [df |-> <<>>, trk |-> NewTracker(1)]]]
    /\ ids = PriorBatches
    /\ succ_max = 0
    /\ cm = NoCache
    /\ taken = [p \in Procs |-> "none"]
    /\ TIdle

QNext == \E p \in Procs : Extract(p)

SpecQ == QInit /\ [][QNext]_vars

\* ---------------------------------------------------------------- C1
RECURSIVE SumDropped(_)
SumDropped(metrics) ==
    IF metrics = <<>> THEN 0 ELSE Head(metrics).rows_dropped + SumDropped(Tail(metrics))

IdxOf(rows) == {rows[i].idx : i \in 1..Len(rows)}

\* C1: row conservation. Once a frame is extracted, and after every block of
\* transform_data, the number of extracted rows equals the rows still in the
\* working frame plus the quarantine entries recorded so far plus the sum of
\* rows_dropped over the metrics recorded so far; the working frame holds
\* extracted rows only, each at most once.
C1_RowConservation ==
    tk \in 1..TDone =>
        /\ Len(tst.frame.rows) =
              Len(tst.st.df) + Len(tst.st.trk.quarantine_records)
              + SumDropped(tst.st.trk.metrics)
        /\ IdxOf(tst.st.df) \subseteq IdxOf(tst.frame.rows)
        /\ Cardinality(IdxOf(tst.st.df)) = Len(tst.st.df)

\* a finished transform_data that staged, quarantined and dropped rows
C1_Witness ==
    /\ tk = TDone
    /\ Len(tst.st.trk.quarantine_records) > 0
    /\ SumDropped(tst.st.trk.metrics) > 0
    /\ Len(tst.frame.rows) = MaxRows

\* ---------------------------------------------------------------- C2
\* the quarantine rule that rejects an extracted row: the first of the three, in
\* their order, whose predicate its typed values satisfy, if its date parses
QuarantineStage(r) ==
    LET q == fillna0(to_numeric(r.Quantity))
        pr == fillna0(to_numeric(r.UnitPrice))
    IN CASE IsNaCell(to_datetime(r.InvoiceDate)) -> 0
         [] pr > SuspiciousPrice /\ Abs(q) < LowQuantity -> 3
         [] q = 0 -> 4
         [] pr < 0 -> 5
         [] OTHER -> 0

RuleNameOf(s) ==
    CASE s = 3 -> "quarantine_suspicious_unit_price"
      [] s = 4 -> "quarantine_zero_quantity"
      [] s = 5 -> "quarantine_negative_unit_price"

\* what an entry says of its row: the rule and the original field values
EntryView(e) ==
    [rule_name |-> e.rule_name, batch_id |-> e.batch_id,
     InvoiceNo |-> e.original_invoice_no, StockCode |-> e.original_stock_code,
     Description |-> e.original_description, Quantity |-> e.original_quantity,
     InvoiceDate |-> e.original_invoice_date, UnitPrice |-> e.original_unit_price,
     CustomerID |-> e.original_customer_id, Country |-> e.original_country]

\* the entry an extracted row is due: its fields as extracted (the date as text)
EntryDue(r, s) ==
    [rule_name |-> RuleNameOf(s), batch_id |-> 0,
     InvoiceNo |-> r.InvoiceNo, StockCode |-> r.StockCode,
     Description |-> r.Description, Quantity |-> r.Quantity,
     InvoiceDate |-> StrDate(r.InvoiceDate), UnitPrice |-> r.UnitPrice,
     CustomerID |-> r.CustomerID, Country |-> r.Country]

\* the entries due from the rules that ran before block k, rule by rule, each
\* rule's rows in frame order
RECURSIVE EntriesDue(_, _, _)
EntriesDue(rows, s, k) ==
    IF s > 5 \/ s >= k THEN <<>>
    ELSE LET mine == SelectSeq(rows, LAMBDA r : QuarantineStage(r) = s)
         IN [i \in 1..Len(mine) |-> EntryDue(mine[i], s)] \o EntriesDue(rows, s + 1, k)

\* C2: quarantine completeness, in full and in incremental mode. After every
\* block of transform_data the quarantine entries are exactly one entry per
\* extracted row rejected by a quarantine rule that has run, carrying that rule's
\* name and the row's field values as extracted; and no such row is still in the
\* working frame, so no later rule sees it and it is never staged.
C2_QuarantineCompleteness ==
    tk \in 1..TDone =>
        LET recs == tst.st.trk.quarantine_records
            rows == tst.frame.rows
        IN /\ [i \in 1..Len(recs) |-> EntryView(recs[i])] = EntriesDue(rows, 3, tk)
           /\ \A i \in 1..Len(rows) :
                 (QuarantineStage(rows[i]) \in 3..5 /\ QuarantineStage(rows[i]) < tk)
                     => rows[i].idx \notin IdxOf(tst.st.df)

\* a finished incremental transformation behind a cursor that quarantined two
\* rows under different rules
C2_Witness ==
    /\ tk = TDone
    /\ tsrc.mode = "incremental" /\ ~IsNaCell(tsrc.last)
    /\ Len(tst.st.trk.quarantine_records) = 2
    /\ tst.st.trk.quarantine_records[1].rule_name
         # tst.st.trk.quarantine_records[2].rule_name

\* ------------------------------------------------------- the orchestrator
\* extraction has run in p's current call
Extracted(p) ==
    /\ run[p].connection
    /\ pc[p] \in {"transform", "load_staging", "load_quarantine", "load_metrics",
                  "log_nodata", "log_success", "except", "returned"}

\* the batch-log rows with p's batch_id
RecordsOf(p) == SelectSeq(batchlog, LAMBDA b : b.batch_id = run[p].batch_id)

\* the instant of a source or frame row's date, 0 if it does not parse
InstantOf(r) == to_datetime(r.InvoiceDate).n

\* ---------------------------------------------------------------- C3
\* C3: incremental monotonicity. When an earlier run logged SUCCESS with greatest
\* staged timestamp T (prior, the greatest such T), a later incremental run
\* extracts only rows with timestamp > T, and if the source holds no such row it
\* returns True having logged SUCCESS_NO_DATA with rows_extracted = 0.
C3_IncrementalMonotonicity ==
    \A p \in Procs :
        (Extracted(p) /\ run[p].mode = "incremental" /\ run[p].prior > 0
         /\ ~run[p].df.none /\ run[p].df.cols) =>
            /\ \A i \in 1..Len(run[p].df.rows) :
                  InstantOf(run[p].df.rows[i]) > run[p].prior
            /\ (pc[p] = "returned"
                /\ \A i \in 1..Len(run[p].src.rows) :
                      InstantOf(run[p].src.rows[i]) <= run[p].prior)
                   => /\ run[p].ret = TRUE
                      /\ Len(run[p].logs) = 1
                      /\ run[p].logs[1].rec.status = "SUCCESS_NO_DATA"
                      /\ run[p].logs[1].rec.rows_extracted = 0

\* ---------------------------------------------------------------- C4
\* C4 as claimed: every run that returns leaves exactly one Batch record for its
\* batch_id, whatever its outcome.
C4_ExactlyOneRecord ==
    \A p \in Procs : pc[p] = "returned" => Len(RecordsOf(p)) = 1

\* C4 as amended: every run that returns leaves at most one Batch record for its
\* batch_id and the batch log never holds two records with one batch_id. A run
\* that obtained a connection has issued exactly one batch-log insert, and if the
\* database accepted it that row is the one record of the batch_id; a run that
\* could not connect has issued none.
C4_AtMostOneRecord ==
    /\ \A i, j \in 1..Len(batchlog) :
          batchlog[i].batch_id = batchlog[j].batch_id => i = j
    /\ \A p \in Procs : pc[p] = "returned" =>
          /\ Len(RecordsOf(p)) <= 1
          /\ Len(run[p].logs) = IF run[p].connection THEN 1 ELSE 0
          /\ \A i \in 1..Len(run[p].logs) :
                /\ run[p].logs[i].rec.status \in {"SUCCESS", "SUCCESS_NO_DATA", "FAILED"}
                /\ run[p].logs[i].ok => RecordsOf(p) = <<run[p].logs[i].rec>>

\* a run that returned with its batch-log insert refused, after rows were staged
C4_Witness ==
    \E p \in Procs :
        /\ pc[p] = "returned"
        /\ run[p].connection
        /\ Len(run[p].logs) = 1 /\ ~run[p].logs[1].ok
        /\ RecordsOf(p) = <<>>
        /\ stg # <<>>

\* ---------------------------------------------------------------- C5
\* C5: the process exits with code 0 when run_etl_pipeline returned True (SUCCESS,
\* SUCCESS_NO_DATA) and with a non-zero code when it returned False (FAILED).
C5_ExitCode ==
    \A p \in Procs :
        pc[p] = "exited" => (run[p].exit_code = 0 <=> run[p].ret = TRUE)

\* ---------------------------------------------------------------- C6
\* C6: after load_to_staging failed no quarantine or metrics insert is issued,
\* after load_quarantine failed no metrics insert is issued, and a run with a
\* failed load returns having logged FAILED.
C6_LoadAbort ==
    \A p \in Procs :
        LET r == run[p]
            staging_failed ==
                /\ pc[p] \in {"load_quarantine", "load_metrics", "except", "returned"}
                /\ r.issued.stg > 0 /\ ~r.success_staging
            quarantine_failed ==
                /\ pc[p] \in {"load_metrics", "except", "returned"}
                /\ r.issued.quar > 0 /\ ~r.success_quarantine
            metrics_failed ==
                /\ pc[p] \in {"except", "returned"}
                /\ r.issued.met > 0 /\ ~r.success_metrics
        IN /\ staging_failed => (r.issued.quar = 0 /\ r.issued.met = 0)
           /\ quarantine_failed => r.issued.met = 0
           /\ ((staging_failed \/ quarantine_failed \/ metrics_failed)
               /\ pc[p] = "returned")
                 => (Len(r.logs) = 1 /\ r.logs[1].rec.status = "FAILED")

\* ---------------------------------------------------------------- C7
\* C7: a run in which extraction, transformation or loading failed ends FAILED,
\* and the error_message of its FAILED Batch record is the error that caused
\* the failure.
C7_ErrorMessageIsCause ==
    \A p \in Procs :
        (pc[p] = "returned" /\ Extracted(p) /\ run[p].cause # NoMsg) =>
            /\ Len(run[p].logs) = 1
            /\ run[p].logs[1].rec.status = "FAILED"
            /\ run[p].logs[1].rec.error_message = run[p].cause

\* ---------------------------------------------------------------- C8
\* extraction returned None in p's current call
ExtractionFailed(p) == Extracted(p) /\ run[p].df.none

\* C8: extraction failure. When extract_data or extract_data_incremental returned
\* None, transform_data is not called, no insert into the staging, quarantine or
\* metrics table is issued and these tables hold no row, and the run returns
\* False having issued one batch-log insert, of a FAILED record with a non-null
\* error message, which is the batch log's one row unless the database refused it.
C8_ExtractionFailure ==
    \A p \in Procs : ExtractionFailed(p) =>
        /\ pc[p] \in {"except", "returned"}
        /\ ~run[p].transformed
        /\ run[p].issued = [stg |-> 0, quar |-> 0, met |-> 0]
        /\ stg = <<>> /\ quar = <<>> /\ met = <<>>
        /\ pc[p] = "returned" =>
              /\ run[p].ret = FALSE
              /\ Len(run[p].logs) = 1
              /\ run[p].logs[1].rec.status = "FAILED"
              /\ run[p].logs[1].rec.error_message # NoMsg
              /\ run[p].logs[1].ok => batchlog = <<run[p].logs[1].rec>>

\* a run that returned after an absent source, its FAILED record in the log
C8_Witness ==
    \E p \in Procs :
        /\ ExtractionFailed(p) /\ pc[p] = "returned"
        /\ run[p].src.kind = "absent"
        /\ Len(batchlog) = 1 /\ batchlog[1].status = "FAILED"

\* ---------------------------------------------------------------- C9
\* extraction returned an empty frame in p's current call
ExtractedNothing(p) == Extracted(p) /\ ~run[p].df.none /\ Len(run[p].df.rows) = 0

\* C9: zero extracted rows. An empty frame takes the run straight to the
\* SUCCESS_NO_DATA log: transform_data and the three loads are not run, and the
\* run returns True having issued one batch-log insert, of a SUCCESS_NO_DATA
\* record with rows_extracted = 0, which is the batch log's one row unless the
\* database refused it.
C9_ZeroRows ==
    \A p \in Procs : ExtractedNothing(p) =>
        /\ pc[p] \in {"log_nodata", "returned"}
        /\ ~run[p].transformed
        /\ run[p].issued = [stg |-> 0, quar |-> 0, met |-> 0]
        /\ stg = <<>> /\ quar = <<>> /\ met = <<>>
        /\ pc[p] = "returned" =>
              /\ run[p].ret = TRUE
              /\ Len(run[p].logs) = 1
              /\ run[p].logs[1].rec.status = "SUCCESS_NO_DATA"
              /\ run[p].logs[1].rec.rows_extracted = 0
              /\ run[p].logs[1].ok => batchlog = <<run[p].logs[1].rec>>

\* a run that returned True after an empty source, its record in the log
C9_Witness ==
    \E p \in Procs :
        /\ ExtractedNothing(p) /\ pc[p] = "returned"
        /\ run[p].ret = TRUE
        /\ Len(batchlog) = 1 /\ batchlog[1].status = "SUCCESS_NO_DATA"

\* ---------------------------------------------------------------- C10
\* C10: batch_id uniqueness. The batch_id a run gets was not handed out to any
\* run before it.
C10_BatchIdUnique ==
    \A p \in Procs : pc[p] \notin {"idle", "exited"} => run[p].fresh

\* ---------------------------------------------------------------- C11
RECURSIVE SumQuarantined(_)
\* the sum of rows_quarantined over metrics
SumQuarantined(ms) ==
    IF ms = <<>> THEN 0 ELSE Head(ms).rows_quarantined + SumQuarantined(Tail(ms))

\* the rows of a table that carry a batch_id
OfBatch(tbl, batch_id) == SelectSeq(tbl, LAMBDA r : r.batch_id = batch_id)

\* C11: SUCCESS counts. In every SUCCESS record of the batch log,
\* rows_loaded_staging is the number of staging rows of its batch_id and
\* rows_quarantined the number of quarantine rows of its batch_id, which is the
\* sum of rows_quarantined over the metrics rows of its batch_id; and the SUCCESS
\* record a run issues has rows_extracted = the number of rows extraction returned.
C11_SuccessCounts ==
    /\ \A i \in 1..Len(batchlog) : batchlog[i].status = "SUCCESS" =>
          LET b == batchlog[i]
          IN /\ b.rows_loaded_staging = Len(OfBatch(stg, b.batch_id))
             /\ b.rows_quarantined = Len(OfBatch(quar, b.batch_id))
             /\ b.rows_quarantined = SumQuarantined(OfBatch(met, b.batch_id))
    /\ \A p \in Procs : \A i \in 1..Len(run[p].logs) :
          run[p].logs[i].rec.status = "SUCCESS" =>
              run[p].logs[i].rec.rows_extracted = Len(run[p].df.rows)

\* a SUCCESS record of a batch that staged a row and quarantined another
C11_Witness ==
    \E i \in 1..Len(batchlog) :
        /\ batchlog[i].status = "SUCCESS"
        /\ batchlog[i].rows_extracted = 2
        /\ batchlog[i].rows_loaded_staging = 1
        /\ batchlog[i].rows_quarantined = 1

\* ---------------------------------------------------------------- C12
\* the rule_name under which a block of transform_data records its metric
MetricNameOf(k) ==
    CASE k = 1 -> "remove_unparseable_dates"
      [] k = 3 -> "quarantine_suspicious_unit_price"
      [] k = 4 -> "quarantine_zero_quantity"
      [] k = 5 -> "quarantine_negative_unit_price"
      [] k = 6 -> "remove_all_null_rows"
      [] k = 7 -> "remove_exact_duplicates"
      [] k = 8 -> "remove_missing_critical"
      [] OTHER -> "none"

\* C12: metric emission. A block of transform_data that takes at least one row
\* out of the working set appends exactly one metric, under the rule's name, with
\* rows_processed = the size before, rows_passed = the size after and the number
\* of rows taken out in exactly one of rows_quarantined / rows_dropped (the other
\* 0), so rows_processed = rows_passed + rows_quarantined + rows_dropped; a block
\* that takes no row out leaves the metrics as they were.
C12_MetricEmission ==
    [][(tk \in 1..NStages =>
        LET pre == Len(tst.st.df)
            post == Len(tst'.st.df)
            ms == tst.st.trk.metrics
            ms2 == tst'.st.trk.metrics
        IN IF pre - post > 0
           THEN /\ ms2 = Append(ms, ms2[Len(ms2)])
                /\ LET m == ms2[Len(ms2)]
                   IN /\ m.rule_name = MetricNameOf(tk)
                      /\ m.rows_processed = pre
                      /\ m.rows_passed = post
                      /\ \/ m.rows_quarantined = pre - post /\ m.rows_dropped = 0
                         \/ m.rows_quarantined = 0 /\ m.rows_dropped = pre - post
                      /\ m.rows_processed
                           = m.rows_passed + m.rows_quarantined + m.rows_dropped
           ELSE ms2 = ms)]_vars

\* a finished transformation in which one rule dropped a row, another quarantined
\* a row, and so two metrics were recorded
C12_Witness ==
    /\ tk = TDone
    /\ Len(tst.st.trk.metrics) = 2
    /\ \E i, j \in 1..2 : /\ tst.st.trk.metrics[i].rows_dropped = 1
                          /\ tst.st.trk.metrics[j].rows_quarantined = 1

\* ---------------------------------------------------------------- C16
\* quantity and unit_price of an extracted row as transform_data types them
TypedQuantity(r) == fillna0(to_numeric(r.Quantity))
TypedUnitPrice(r) == fillna0(to_numeric(r.UnitPrice))

\* a record no staged record may be: quantity 0, negative price, or a price over
\* 10000 with a quantity under 100 in absolute value
Anomalous(q, pr) == q = 0 \/ pr < 0 \/ (pr > 10000 /\ Abs(q) < 100)

\* C16: staged-record invariant. Once the three quarantine rules have run, and so
\* at classification and in the frame that is staged, no record has quantity = 0,
\* unit_price < 0, or unit_price > 10000 with |quantity| < 100; every extracted
\* record with one of these properties whose date parses has a quarantine entry
\* of zero_quantity, negative_unit_price or suspicious_unit_price and is not in
\* the working set.
C16_StagedRecordInvariant ==
    tk \in 6..TDone =>
        /\ \A i \in 1..Len(tst.st.df) :
              ~Anomalous(tst.st.df[i].quantity, tst.st.df[i].unit_price)
        /\ \A i \in 1..Len(tst.frame.rows) :
              LET r == tst.frame.rows[i]
              IN (/\ ~IsNaCell(to_datetime(r.InvoiceDate))
                  /\ Anomalous(TypedQuantity(r), TypedUnitPrice(r))) =>
                    /\ r.idx \notin IdxOf(tst.st.df)
                    /\ \E j \in 1..Len(tst.st.trk.quarantine_records) :
                          LET e == tst.st.trk.quarantine_records[j]
                          IN /\ e.raw_row_json.idx = r.idx
                             /\ e.rule_name \in {"quarantine_zero_quantity",
                                                 "quarantine_negative_unit_price",
                                                 "quarantine_suspicious_unit_price"}

\* flags are being computed on one record while a record with an unparseable
\* quantity (cast to 0) sits in quarantine
C16_Witness ==
    /\ tk = 10
    /\ Len(tst.st.df) = 1
    /\ \E j \in 1..Len(tst.st.trk.quarantine_records) :
          /\ tst.st.trk.quarantine_records[j].rule_name = "quarantine_zero_quantity"
          /\ tst.st.trk.quarantine_records[j].original_quantity = Junk

\* ------------------------------------------------- the staged records
\* the records load_to_staging would insert: the columns of column_mapping of the
\* frame transform_data returned
Staged == [i \in 1..Len(tst.st.df) |-> StagingRow(tst.st.df[i])]

\* the extracted row a row of the working frame comes from
ExtractedRow(r) == CHOOSE x \in {tst.frame.rows[i] : i \in 1..Len(tst.frame.rows)} : x.idx = r.idx

\* ---------------------------------------------------------------- C13
\* C13: guest invariant. In every staged record is_guest_purchase is true exactly
\* when the record has no customer: its CustomerID in the source is missing or
\* not a number, and its staged customer_id is null.
C13_GuestInvariant ==
    tk = TDone =>
        \A i \in 1..Len(Staged) :
            /\ Staged[i].is_guest_purchase
                  <=> ExtractedRow(tst.st.df[i]).CustomerID.t \in {"nan", "junk"}
            /\ Staged[i].is_guest_purchase <=> Staged[i].customer_id = NaN

\* staged together: a record whose CustomerID does not parse, flagged guest, and
\* a record with a customer, not flagged
C13_Witness ==
    /\ tk = TDone
    /\ \E i, j \in 1..Len(Staged) :
          /\ ExtractedRow(tst.st.df[i]).CustomerID = Junk /\ Staged[i].is_guest_purchase
          /\ Staged[j].customer_id = Num(7) /\ ~Staged[j].is_guest_purchase

\* ---------------------------------------------------------------- C14
\* the five flags by their reference definitions, from a staged record's fields
ReferenceFlags(s) ==
    LET cancellation == s.invoice_no # <<>> /\ s.invoice_no[1] = "C"
        absent == s.customer_id = NaN
        adjustment == s.quantity < 0 /\ ~cancellation /\ s.unit_price = 0 /\ absent
    IN [is_cancellation |-> cancellation,
        is_adjustment |-> adjustment,
        is_guest_purchase |-> absent,
        is_valid_sale |-> s.quantity > 0 /\ s.unit_price > 0 /\ ~cancellation,
        is_return |-> s.quantity < 0 /\ ~adjustment]

FlagsOf(s) ==
    [f \in {"is_cancellation", "is_adjustment", "is_guest_purchase", "is_valid_sale",
            "is_return"} |-> s[f]]

\* the source row of the example: a return of 3 on a cancellation invoice, price
\* 5, no customer
IsExample(r) ==
    /\ r.InvoiceNo = <<"C", "1">> /\ r.Quantity = Num(-3)
    /\ r.UnitPrice = Num(5) /\ r.CustomerID = NaN

\* C14: classifier correctness. The five flags of every staged record equal their
\* reference definitions over the record's staged fields; and when the source
\* holds the example row (invoice C.., quantity -3, price 5, no customer) it is
\* staged with is_cancellation, is_guest_purchase and is_return true and
\* is_adjustment and is_valid_sale false.
C14_ClassifierCorrectness ==
    tk = TDone =>
        /\ \A i \in 1..Len(Staged) : FlagsOf(Staged[i]) = ReferenceFlags(Staged[i])
        /\ (\E k \in 1..Len(tst.frame.rows) : IsExample(tst.frame.rows[k])) =>
              \E i \in 1..Len(Staged) : IsExample(ExtractedRow(tst.st.df[i]))
        /\ \A i \in 1..Len(Staged) : IsExample(ExtractedRow(tst.st.df[i])) =>
              FlagsOf(Staged[i]) =
                 [is_cancellation |-> TRUE, is_adjustment |-> FALSE,
                  is_guest_purchase |-> TRUE, is_valid_sale |-> FALSE,
                  is_return |-> TRUE]

\* the example row staged next to an adjustment (quantity -3, price 0, no
\* customer, no marker)
C14_Witness ==
    /\ tk = TDone
    /\ \E i, j \in 1..Len(Staged) :
          /\ IsExample(ExtractedRow(tst.st.df[i]))
          /\ Staged[j].is_adjustment /\ ~Staged[j].is_return

\* ---------------------------------------------------------------- C15
\* a staged record with the cancellation marker and a negative quantity
MarkedReturn(s) == s.invoice_no # <<>> /\ s.invoice_no[1] = "C" /\ s.quantity < 0

\* C15 as claimed: every staged record whose invoice_no starts with the
\* cancellation marker and whose quantity is < 0 has is_cancellation = true and
\* is_return = false.
C15_CancellationNotReturn ==
    tk = TDone =>
        \A i \in 1..Len(Staged) : MarkedReturn(Staged[i]) =>
            (Staged[i].is_cancellation /\ ~Staged[i].is_return)

\* C15 as amended: every staged record whose invoice_no starts with the
\* cancellation marker and whose quantity is < 0 has is_cancellation = true,
\* is_adjustment = false and is_return = true: the flags are computed
\* independently and is_return excludes adjustments only.
C15_CancellationAndReturn ==
    tk = TDone =>
        \A i \in 1..Len(Staged) : MarkedReturn(Staged[i]) =>
            (Staged[i].is_cancellation /\ ~Staged[i].is_adjustment /\ Staged[i].is_return)

\* a staged record that got its marker by trimming and upper-casing, quantity -3
C15_Witness ==
    /\ tk = TDone
    /\ \E i \in 1..Len(Staged) :
          /\ MarkedReturn(Staged[i])
          /\ ExtractedRow(tst.st.df[i]).InvoiceNo = <<" ", "c", "1">>
          /\ Staged[i].is_cancellation /\ Staged[i].is_return

\* ---------------------------------------------------------------- C17
\* the fields of the extracted record a working row comes from
FieldsOf(r) == [c \in (DOMAIN ExtractedRow(r)) \ {"idx"} |-> ExtractedRow(r)[c]]

\* C17: duplicate exactness. The exact_duplicate block (drop_duplicates) keeps a
\* record exactly when no earlier record of the working set has the same value in
\* every field of the extracted frame: two records that differ in a field are
\* never dropped because of each other, and of records identical in all fields
\* the first is kept and every other is dropped. It adds no record.
C17_DuplicateExactness ==
    [][(tk = 7 =>
        LET pre == tst.st.df
            post == tst'.st.df
        IN /\ IdxOf(post) \subseteq IdxOf(pre)
           /\ \A i \in 1..Len(pre) :
                 pre[i].idx \in IdxOf(post)
                    <=> \A j \in 1..(i - 1) : FieldsOf(pre[j]) # FieldsOf(pre[i]))]_vars

\* the rule has dropped the second of two identical records
C17_Witness ==
    /\ tk = 8
    /\ Len(tst.frame.rows) = 2 /\ Len(tst.st.df) = 1
    /\ \E i \in 1..Len(tst.st.trk.metrics) :
          /\ tst.st.trk.metrics[i].rule_name = "remove_exact_duplicates"
          /\ tst.st.trk.metrics[i].rows_dropped = 1

\* ---------------------------------------------------------------- C19
\* an extracted record with a null critical field: invoice number or stock code
\* missing, date missing or unparseable, quantity or unit price missing or
\* unparseable
NullCritical(r) ==
    \/ r.InvoiceNo = <<>> \/ r.StockCode = <<>>
    \/ to_datetime(r.InvoiceDate) = NaN
    \/ r.Quantity.t \in {"nan", "junk"}
    \/ r.UnitPrice.t \in {"nan", "junk"}

\* C19: missing critical field. Once the missing_critical_field rule has run, and
\* so in the staged frame, the working set holds no record whose invoice_no,
\* stock_code, timestamp, quantity or unit_price is null in the source: the rule
\* has dropped every such record that reached it.
C19_MissingCritical ==
    tk \in 9..TDone =>
        \A i \in 1..Len(tst.st.df) : ~NullCritical(ExtractedRow(tst.st.df[i]))

\* ---------------------------------------------------------------- C20
\* an extracted record with every field empty
AllEmpty(r) ==
    /\ r.InvoiceNo = <<>> /\ r.StockCode = <<>> /\ r.Description = <<>>
    /\ r.Quantity = NaN /\ r.InvoiceDate = NaN /\ r.UnitPrice = NaN
    /\ r.CustomerID = NaN /\ r.Country = <<>>

RECURSIVE DroppedBy(_, _)
\* the sum of rows_dropped over the metrics of one rule
DroppedBy(metrics, rule_name) ==
    IF metrics = <<>> THEN 0
    ELSE (IF Head(metrics).rule_name = rule_name THEN Head(metrics).rows_dropped ELSE 0)
         + DroppedBy(Tail(metrics), rule_name)

\* C20: all-null rule. Once the all_null_row block has run, every extracted
\* record whose fields are all empty is counted in the rows_dropped of the
\* remove_all_null_rows metric of the batch.
C20_AllNullRule ==
    tk \in 7..TDone =>
        Len(SelectSeq(tst.frame.rows, AllEmpty))
            <= DroppedBy(tst.st.trk.metrics, "remove_all_null_rows")

\* ---------------------------------------------------------------- C18
\* the last operation was op on key k
Last(op, k) == cm.last.op = op /\ cm.last.key = k

\* the latest set of k that succeeded, with no delete of k since, stored v
AfterSet(k, v) == cm.after[k].op = "set" /\ cm.after[k].value = v

\* the latest change asked for k is a delete
AfterDelete(k) == cm.after[k].op = "delete"

Live(k, t) == cm.cache_type = "memory" \/ t < cm.redis[k].expires

NormalizedFields ==
    {"invoice_no", "stock_code", "description", "country", "quantity", "unit_price",
     "invoice_date", "customer_id"}
Normalized(s) == [c \in NormalizedFields |-> s[c]]

\* C21: duplicates on the normalized tuple. The staged set of a batch never holds
\* two records equal in all normalized fields (invoice_no and stock_code trimmed
\* and upper-cased, description trimmed, country trimmed and title-cased, typed
\* quantity, unit_price, timestamp and customer_id).
C21_NormalizedDuplicates ==
    tk = TDone =>
        \A i, j \in 1..Len(Staged) :
            Normalized(Staged[i]) = Normalized(Staged[j]) => i = j

\* ---------------------------------------------------------------- C22
\* the first n rows of the frame load_to_staging loads, as staging rows
FirstStaged(df, n) == [j \in 1..n |-> StagingRow(df[j])]

\* load_to_staging has returned False in p's current call
StagingFailed(p) ==
    /\ pc[p] \in {"load_quarantine", "load_metrics", "except", "returned"}
    /\ run[p].issued.stg > 0 /\ ~run[p].success_staging

\* C22: partial load. Each chunk insert of load_to_staging is committed on its
\* own: while the loop runs the staging table holds the chunks inserted so far,
\* and when the insert of chunk k fails the table holds chunks 1..k-1 and no row
\* of chunk k, no further chunk is attempted (k inserts were issued), and the
\* run returns having issued a FAILED record for its batch_id, which is the batch
\* log's one row unless the database refused it.
C22_PartialLoad ==
    \A p \in Procs :
        LET r == run[p]
        IN /\ (pc[p] = "load_staging" /\ r.transformed) =>
                 (r.issued.stg = r.i /\ stg = FirstStaged(r.st.df, r.i * chunk_size))
           /\ StagingFailed(p) =>
                 /\ r.issued.stg <= total_chunks(Len(r.st.df))
                 /\ stg = FirstStaged(r.st.df, (r.issued.stg - 1) * chunk_size)
                 /\ pc[p] = "returned" =>
                       /\ Len(r.logs) = 1
                       /\ r.logs[1].rec.status = "FAILED"
                       /\ r.logs[1].rec.batch_id = r.batch_id
                       /\ r.logs[1].ok => batchlog = <<r.logs[1].rec>>

\* the second chunk of a batch failed: the first chunk's row is in the staging
\* table and the batch log records FAILED for its batch_id
C22_Witness ==
    \E p \in Procs :
        /\ StagingFailed(p) /\ pc[p] = "returned"
        /\ run[p].issued.stg = 2
        /\ Len(stg) = 1 /\ stg[1].batch_id = run[p].batch_id
        /\ Len(batchlog) = 1
        /\ batchlog[1].status = "FAILED" /\ batchlog[1].batch_id = stg[1].batch_id

\* ---------------------------------------------------------------- C23
\* the invoice dates of the staging rows whose batch_id has a SUCCESS record
SuccessDates ==
    {stg[i].invoice_date.n :
        i \in {k \in 1..Len(stg) :
                 \E j \in 1..Len(batchlog) : /\ batchlog[j].batch_id = stg[k].batch_id
                                             /\ batchlog[j].status = "SUCCESS"}}

\* the staging rows of batches without a SUCCESS record
OtherRows ==
    SelectSeq(stg, LAMBDA r : ~\E j \in 1..Len(batchlog) :
                                  /\ batchlog[j].batch_id = r.batch_id
                                  /\ batchlog[j].status = "SUCCESS")

\* C23: incremental cursor. The cursor an incremental run resolves, when its
\* query meets no error, is the greatest invoice_date over the staging rows whose
\* batch_id has a batch-log record with status SUCCESS; rows of batches logged
\* FAILED or SUCCESS_NO_DATA, or not logged, do not count; with no such row the
\* cursor is None, and with a cursor of None extract_data_incremental returns
\* what extract_data returns for the same source.
C23_IncrementalCursor ==
    \A p \in Procs : pc[p] # "extract" =>
        LET last == run[p].last_batch_date
        IN /\ (~run[p].txfail /\ SuccessDates # {}) =>
                 /\ last.t = "ts" /\ last.n \in SuccessDates
                 /\ \A d \in SuccessDates : d <= last.n
           /\ (~run[p].txfail /\ SuccessDates = {}) => last = NaN
           /\ last = NaN => run[p].df = extract_data(run[p].src)

\* a SUCCESS batch staged a sale at instant 1 and a FAILED batch one at instant
\* 2: the cursor is instant 1 and the sale at 2 is extracted again
C23_Witness ==
    \E p \in Procs :
        /\ pc[p] = "transform"
        /\ SuccessDates = {1}
        /\ \E i \in 1..Len(OtherRows) :
              /\ OtherRows[i].invoice_date.n = 2
              /\ \E j \in 1..Len(batchlog) : /\ batchlog[j].batch_id = OtherRows[i].batch_id
                                              /\ batchlog[j].status = "FAILED"
        /\ run[p].last_batch_date = Timestamp(1)
        /\ Len(run[p].df.rows) = 1

\* ------------------------------------------------- the tables of a run
\* the batch_ids of the rows in the four tables
TableBatchIds ==
    {stg[i].batch_id : i \in 1..Len(stg)} \cup {quar[i].batch_id : i \in 1..Len(quar)}
    \cup {met[i].batch_id : i \in 1..Len(met)}
    \cup {batchlog[i].batch_id : i \in 1..Len(batchlog)}

\* p's current call has a connection and has created its tables
TablesCreated(p) ==
    run[p].connection /\ pc[p] \notin {"idle", "exited", "create_tables"}

\* ---------------------------------------------------------------- C24
\* the phases of one run in their order; 0 outside a run's phases
Rank(l) ==
    CASE l = "extract" -> 1
      [] l = "transform" -> 2
      [] l = "load_staging" -> 3
      [] l = "load_quarantine" -> 4
      [] l = "load_metrics" -> 5
      [] l \in {"log_nodata", "log_success", "except"} -> 6
      [] l = "returned" -> 7
      [] OTHER -> 0

\* a step of process p keeps to the order of the phases: p's position does not
\* go back, each table is written in its own phase only (and emptied when the
\* tables are created), and a SUCCESS record is issued only with all three loads
\* returned True
PhaseStep(p) ==
    /\ (Rank(pc[p]) > 0 /\ Rank(pc'[p]) > 0) => Rank(pc'[p]) >= Rank(pc[p])
    /\ stg' # stg => pc[p] \in {"create_tables", "load_staging"}
    /\ quar' # quar => pc[p] \in {"create_tables", "load_quarantine"}
    /\ met' # met => pc[p] \in {"create_tables", "load_metrics"}
    /\ batchlog' # batchlog =>
          pc[p] \in {"create_tables", "log_nodata", "log_success", "except"}
    /\ (Len(run'[p].logs) > Len(run[p].logs)
        /\ run'[p].logs[Len(run'[p].logs)].rec.status = "SUCCESS") =>
          /\ pc[p] = "log_success" /\ run[p].transformed
          /\ run[p].success_staging /\ run[p].success_quarantine
          /\ run[p].success_metrics

\* a terminal record of p's batch_id existed when p's run recreated the tables
\* (taken: its status), and it stays final: the tables hold no row of that
\* batch_id, and no record of it with another status
StaysFinal(p) ==
    (TablesCreated(p) /\ taken[p] # "none") =>
        /\ OfBatch(stg, run[p].batch_id) = <<>>
        /\ OfBatch(quar, run[p].batch_id) = <<>>
        /\ OfBatch(met, run[p].batch_id) = <<>>
        /\ StatusOf(run[p].batch_id) \in {"none", taken[p]}

\* C24: phase ordering. Within one run the phases only advance in the order
\* extract, transform, load staging, load quarantine, load metrics, write Batch
\* record, and a SUCCESS record is written only after all three loads returned
\* success; a record in the batch log keeps its status; and once a terminal
\* Batch record exists for a batch_id, no record of that batch_id gets another
\* status and no staging, quarantine or metrics row is written for it any more.
C24_PhaseOrdering ==
    [][(\A p \in Procs :
          /\ PhaseStep(p)
          /\ \A b \in TableBatchIds :
                (StatusOf(b) # "none" /\ StatusOf(b)' # "none") => StatusOf(b)' = StatusOf(b)
          /\ StaysFinal(p)')]_vars

\* ---------------------------------------------------------------- C25
\* the index labels of the extracted rows the quarantine entries were built from
EntryIdx(recs) == {recs[i].raw_row_json.idx : i \in 1..Len(recs)}

\* C25: dropped rows leave no audit entry. A block of transform_data other than
\* the three quarantine rules leaves the quarantine collection as it is, and the
\* rows it removes (unparseable_dates, all_null_row, exact_duplicate,
\* missing_critical_field) are counted in the rows_dropped of one new metric of
\* that rule and are in no quarantine entry; a quarantine rule adds one entry for
\* each row it removes, which are rows of the working set, and drops none.
C25_DropsLeaveNoAudit ==
    [][(tk \in 1..NStages =>
        LET gone == IdxOf(tst.st.df) \ IdxOf(tst'.st.df)
            recs == tst.st.trk.quarantine_records
            recs2 == tst'.st.trk.quarantine_records
            ms == tst.st.trk.metrics
            ms2 == tst'.st.trk.metrics
        IN IF tk \in 3..5
           THEN /\ SubSeq(recs2, 1, Len(recs)) = recs
                /\ Len(recs2) = Len(recs) + Cardinality(gone)
                /\ EntryIdx(recs2) = EntryIdx(recs) \cup gone
                /\ SumDropped(ms2) = SumDropped(ms)
           ELSE /\ recs2 = recs
                /\ EntryIdx(recs2) \cap gone = {}
                /\ gone # {} =>
                      /\ tk \in {1, 6, 7, 8}
                      /\ ms2 = Append(ms, ms2[Len(ms2)])
                      /\ ms2[Len(ms2)].rule_name = MetricNameOf(tk)
                      /\ ms2[Len(ms2)].rows_dropped = Cardinality(gone)
                      /\ ms2[Len(ms2)].rows_quarantined = 0)]_vars

\* a finished transformation of two rows: one dropped for its date, one without
\* an invoice number dropped as missing_critical, and no quarantine entry
C25_Witness ==
    /\ tk = TDone
    /\ Len(tst.frame.rows) = 2 /\ Len(tst.st.df) = 0
    /\ tst.st.trk.quarantine_records = <<>>
    /\ DroppedBy(tst.st.trk.metrics, "remove_unparseable_dates") = 1
    /\ DroppedBy(tst.st.trk.metrics, "remove_missing_critical") = 1

\* ---------------------------------------------------------------- C26
\* the rules in their order, by the block of transform_data that applies them
RuleOrder == {1, 3, 4, 5, 6, 7, 8}

\* the predicate of rule k on the i-th extracted row
Satisfies(k, i) ==
    LET r == tst.frame.rows[i]
    IN CASE k = 1 -> to_datetime(r.InvoiceDate) = NaN
         [] k = 3 -> TypedUnitPrice(r) > 10000 /\ Abs(TypedQuantity(r)) < 100
         [] k = 4 -> TypedQuantity(r) = 0
         [] k = 5 -> TypedUnitPrice(r) < 0
         [] k = 6 -> AllEmpty(r)
         [] k = 7 -> \E j \in 1..(i - 1) :
                        [c \in (DOMAIN r) \ {"idx"} |-> r[c]]
                          = [c \in (DOMAIN r) \ {"idx"} |-> tst.frame.rows[j][c]]
         [] k = 8 -> NullCritical(r)

RulesMet(i) == {k \in RuleOrder : Satisfies(k, i)}

\* the first rule, in the order, whose predicate the row satisfies
FirstRule(i) == CHOOSE k \in RulesMet(i) : \A l \in RulesMet(i) : k <= l

\* the extracted rows rejected, and those of them whose first rule is k
RejectedRows == {i \in 1..Len(tst.frame.rows) : tst.frame.rows[i].idx \notin IdxOf(tst.st.df)}
AttributedTo(k) == {i \in RejectedRows : RulesMet(i) # {} /\ FirstRule(i) = k}

\* the metrics and the quarantine entries of a rule
MetricsOf(k) == SelectSeq(tst.st.trk.metrics, LAMBDA m : m.rule_name = MetricNameOf(k))
EntriesOfRow(i) ==
    SelectSeq(tst.st.trk.quarantine_records,
              LAMBDA e : e.raw_row_json.idx = tst.frame.rows[i].idx)

\* C26: rule order decides attribution. When transform_data has finished, a
\* record that satisfies the predicates of several rules is rejected, and every
\* rejected record is attributed to the first rule, in the order
\* unparseable_dates, suspicious_unit_price, zero_quantity, negative_unit_price,
\* all_null_row, exact_duplicate, missing_critical_field, that it satisfies: it
\* has one quarantine entry, under that rule's name, if that is a quarantine rule
\* and none otherwise, and each rule's metric counts exactly the records
\* attributed to it (no metric when there are none).
C26_RuleOrder ==
    tk = TDone =>
        /\ \A i \in 1..Len(tst.frame.rows) :
              /\ Cardinality(RulesMet(i)) >= 2 => i \in RejectedRows
              /\ i \in RejectedRows =>
                    /\ RulesMet(i) # {}
                    /\ IF FirstRule(i) \in 3..5
                       THEN /\ Len(EntriesOfRow(i)) = 1
                            /\ EntriesOfRow(i)[1].rule_name = MetricNameOf(FirstRule(i))
                       ELSE EntriesOfRow(i) = <<>>
        /\ \A k \in RuleOrder :
              IF AttributedTo(k) = {} THEN MetricsOf(k) = <<>>
              ELSE /\ Len(MetricsOf(k)) = 1
                   /\ MetricsOf(k)[1].rows_quarantined + MetricsOf(k)[1].rows_dropped
                        = Cardinality(AttributedTo(k))

\* the two examples in one batch: quantity 0 with price 15000 quarantined as
\* suspicious_unit_price, quantity 0 with price -1 as zero_quantity
C26_Witness ==
    /\ tk = TDone
    /\ \E i, j \in 1..Len(tst.st.trk.quarantine_records) :
          LET e == tst.st.trk.quarantine_records[i]
              f == tst.st.trk.quarantine_records[j]
          IN /\ e.original_quantity = Num(0) /\ e.original_unit_price = Num(15000)
             /\ e.rule_name = "quarantine_suspicious_unit_price"
             /\ f.original_quantity = Num(0) /\ f.original_unit_price = Num(-1)
             /\ f.rule_name = "quarantine_zero_quantity"

\* ---------------------------------------------------------------- C29
\* C29: metric chain. After extraction and after every block of transform_data,
\* in the metrics recorded so far, in order, the first metric's rows_processed is
\* the number of extracted rows, each later metric's rows_processed is the
\* metric before's rows_passed, and the last metric's rows_passed is the size of
\* the working set (of the staged frame at the end); with no metric the working
\* set has as many rows as were extracted.
C29_MetricChain ==
    tk \in 1..TDone =>
        LET ms == tst.st.trk.metrics
        IN IF ms = <<>> THEN Len(tst.st.df) = Len(tst.frame.rows)
           ELSE /\ ms[1].rows_processed = Len(tst.frame.rows)
                /\ \A i \in 2..Len(ms) : ms[i].rows_processed = ms[i - 1].rows_passed
                /\ ms[Len(ms)].rows_passed = Len(tst.st.df)

\* a finished transformation with a chain of two metrics, 2 -> 1 -> 0
C29_Witness ==
    /\ tk = TDone
    /\ Len(tst.st.trk.metrics) = 2
    /\ tst.st.trk.metrics[1].rows_processed = 2 /\ tst.st.trk.metrics[1].rows_passed = 1
    /\ tst.st.trk.metrics[2].rows_processed = 1 /\ tst.st.trk.metrics[2].rows_passed = 0
    /\ Len(tst.st.df) = 0

C28_FailedCountsZero ==
    /\ \A i \in 1..Len(batchlog) : batchlog[i].status = "FAILED" =>
          /\ batchlog[i].rows_extracted = 0
          /\ batchlog[i].rows_loaded_staging = 0
          /\ batchlog[i].rows_quarantined = 0
    /\ \A p \in Procs : \A i \in 1..Len(run[p].logs) :
          run[p].logs[i].rec.status = "FAILED" =>
              /\ run[p].logs[i].rec.rows_extracted = 0
              /\ run[p].logs[i].rec.rows_loaded_staging = 0
              /\ run[p].logs[i].rec.rows_quarantined = 0

\* a run extracted two rows, staged one and quarantined one, failed on its
\* metrics and logged FAILED with zero counts
C28_Witness ==
    \E p \in Procs :
        /\ pc[p] = "returned" /\ run[p].rows_extracted = 2
        /\ Len(OfBatch(stg, run[p].batch_id)) = 1
        /\ Len(OfBatch(quar, run[p].batch_id)) = 1
        /\ Len(batchlog) = 1 /\ batchlog[1].status = "FAILED"
        /\ batchlog[1].batch_id = run[p].batch_id
        /\ batchlog[1].rows_extracted = 0

\* ---------------------------------------------------------------- C30
\* C30: flag exclusivity. For every staged record is_valid_sale, is_return and
\* is_adjustment are pairwise exclusive, is_valid_sale excludes is_cancellation,
\* is_adjustment implies is_guest_purchase and excludes is_cancellation, and a
\* record with quantity < 0 has exactly one of is_return, is_adjustment.
C30_FlagExclusivity ==
    tk = TDone =>
        \A i \in 1..Len(Staged) :
            LET s == Staged[i]
            IN /\ ~(s.is_valid_sale /\ s.is_return)
               /\ ~(s.is_valid_sale /\ s.is_adjustment)
               /\ ~(s.is_return /\ s.is_adjustment)
               /\ ~(s.is_valid_sale /\ s.is_cancellation)
               /\ s.is_adjustment => (s.is_guest_purchase /\ ~s.is_cancellation)
               /\ s.quantity < 0 => (s.is_return # s.is_adjustment)

\* staged together: an adjustment (not a return) and a return on a cancellation
\* invoice with price 0 and no customer (not an adjustment)
C30_Witness ==
    /\ tk = TDone
    /\ \E i, j \in 1..Len(Staged) :
          /\ Staged[i].is_adjustment /\ ~Staged[i].is_return /\ Staged[i].quantity < 0
          /\ Staged[j].is_cancellation /\ Staged[j].is_return /\ ~Staged[j].is_adjustment
          /\ Staged[j].unit_price = 0 /\ Staged[j].is_guest_purchase

====
